---- MODULE Spec2Model ----
(***************************************************************************)
(* Read-only MongoDB query server: the query compiler (remote-eval and     *)
(* driver-call renderers), the query / runSavedQuery tool handlers and the *)
(* saved-query store.                                                      *)
(*                                                                         *)
(* Text is a sequence of one-character strings, so that escaping, parsing  *)
(* and serialising are computed character by character as the code does.   *)
(* Fixed fragments of a format! template ("JSON.stringify(", ".find(", ...)*)
(* are single elements of the sequence.                                    *)
(***************************************************************************)
EXTENDS Integers, Sequences, FiniteSets, TLC

(***************************************************************************)
(* Bounds                                                                  *)
(***************************************************************************)
MaxNameLen == 2
MaxLimit == 1
MaxTasks == 3
MaxCalls == 1
MaxPieces == 3
MaxTemplatePieces == 4
MaxClock == 2
MaxConfigured == 2
MaxWriters == 2
MaxPods == 2
MaxTimeout == 2
MaxContainers == 2
MaxClusterCalls == 2

(***************************************************************************)
(* Option<T>: None is the empty sequence, Some(x) is <<x>>.                *)
(***************************************************************************)
None == <<>>
Some(x) == <<x>>
IsSome(o) == o # <<>>
Unwrap(o) == o[1]

(***************************************************************************)
(* Characters                                                              *)
(***************************************************************************)
QUOTE == "\""
BSLASH == "\\"
NEWLINE == "\n"
Whitespace == {" ", NEWLINE, "\t", "\r"}
DigitChars == {"0", "1", "2", "3", "4", "5", "6", "7", "8", "9"}
DigitOf == <<"0", "1", "2", "3", "4", "5", "6", "7", "8", "9">>

RECURSIVE Decimal(_)
Decimal(n) ==
  IF n < 10 THEN <<DigitOf[n + 1]>>
  ELSE Decimal(n \div 10) \o <<DigitOf[(n % 10) + 1]>>

(* str::contains *)
Contains(text, pat) ==
  \E i \in 1..(Len(text) - Len(pat) + 1) :
     \A k \in 1..Len(pat) : text[i + k - 1] = pat[k]

RECURSIVE TrimStart(_)
TrimStart(text) ==
  IF text # <<>> /\ Head(text) \in Whitespace THEN TrimStart(Tail(text)) ELSE text

RECURSIVE TrimEnd(_)
TrimEnd(text) ==
  IF text # <<>> /\ text[Len(text)] \in Whitespace
  THEN TrimEnd(SubSeq(text, 1, Len(text) - 1))
  ELSE text

(* str::trim *)
Trim(text) == TrimEnd(TrimStart(text))

(***************************************************************************)
(* serde_json::Value.  Every value is a record [t, s, m]: t the kind, s    *)
(* the characters of a string or of a number literal, m the members of an  *)
(* object (key k, value v) or the elements of an array (k empty).          *)
(***************************************************************************)
JNull == [t |-> "null", s |-> <<>>, m |-> <<>>]
JBool(b) == [t |-> IF b THEN "true" ELSE "false", s |-> <<>>, m |-> <<>>]
JString(chars) == [t |-> "string", s |-> chars, m |-> <<>>]
JNumber(chars) == [t |-> "number", s |-> chars, m |-> <<>>]
JArray(elems) == [t |-> "array", s |-> <<>>, m |-> elems]
JObject(members) == [t |-> "object", s |-> <<>>, m |-> members]
Member(key, val) == [k |-> key, v |-> val]
Elem(val) == [k |-> <<>>, v |-> val]
EmptyObject == JObject(<<>>)

(* Map::insert with insertion order kept: a repeated key keeps its place    *)
(* and takes the later value.                                               *)
MapInsert(members, key, val) ==
  IF \E i \in 1..Len(members) : members[i].k = key
  THEN [i \in 1..Len(members) |->
          IF members[i].k = key THEN Member(key, val) ELSE members[i]]
  ELSE Append(members, Member(key, val))

(* Value::get(key): Some(value) for an object that has the key *)
ValueGet(val, key) ==
  IF val.t = "object" /\ \E i \in 1..Len(val.m) : val.m[i].k = key
  THEN Some(val.m[CHOOSE i \in 1..Len(val.m) : val.m[i].k = key].v)
  ELSE None

(* Value::as_str *)
AsStr(val) == IF val.t = "string" THEN Some(val.s) ELSE None

(***************************************************************************)
(* serde_json::from_str: a recursive-descent JSON parser.  A parse step    *)
(* returns [ok, v, i]: success, the value, the index after it.             *)
(***************************************************************************)
ParseFail == [ok |-> FALSE, v |-> JNull, i |-> 0]
ParseOk(val, next) == [ok |-> TRUE, v |-> val, i |-> next]

RECURSIVE SkipWs(_, _)
SkipWs(text, i) ==
  IF 1 <= i /\ i <= Len(text) /\ text[i] \in Whitespace THEN SkipWs(text, i + 1)
  ELSE i

At(text, i, c) == 1 <= i /\ i <= Len(text) /\ text[i] = c

(* the body of a string literal, from the character after the opening quote *)
RECURSIVE ParseStringBody(_, _, _)
ParseStringBody(text, i, acc) ==
  IF i > Len(text) THEN ParseFail
  ELSE IF text[i] = QUOTE THEN ParseOk(JString(acc), i + 1)
  ELSE IF text[i] = BSLASH THEN
    IF i + 1 > Len(text) THEN ParseFail
    ELSE IF text[i + 1] \in {QUOTE, BSLASH, "/"}
      THEN ParseStringBody(text, i + 2, Append(acc, text[i + 1]))
    ELSE IF text[i + 1] = "n"
      THEN ParseStringBody(text, i + 2, Append(acc, NEWLINE))
    ELSE ParseFail
  ELSE IF text[i] = NEWLINE THEN ParseFail
  ELSE ParseStringBody(text, i + 1, Append(acc, text[i]))

RECURSIVE ParseDigits(_, _)
ParseDigits(text, i) ==
  IF i <= Len(text) /\ text[i] \in DigitChars THEN ParseDigits(text, i + 1) ELSE i

(* a number literal: optional minus, then 0 or a digit run without a       *)
(* leading zero, then an optional fraction of a point and digits           *)
ParseNumber(text, i) ==
  LET Fraction(e, f) ==
        IF At(text, e, ".")
        THEN IF f = e + 1 THEN ParseFail
             ELSE ParseOk(JNumber(SubSeq(text, i, f - 1)), f)
        ELSE ParseOk(JNumber(SubSeq(text, i, e - 1)), e)
      Digits(j, e) ==
        IF e = j THEN ParseFail ELSE Fraction(e, ParseDigits(text, e + 1))
      Unsigned(j) ==
        Digits(j, IF At(text, j, "0") THEN j + 1 ELSE ParseDigits(text, j))
  IN Unsigned(IF At(text, i, "-") THEN i + 1 ELSE i)

ParseWord(text, i, word, val) ==
  IF i + Len(word) - 1 <= Len(text) /\ SubSeq(text, i, i + Len(word) - 1) = word
  THEN ParseOk(val, i + Len(word))
  ELSE ParseFail

RECURSIVE ParseValue(_, _)
RECURSIVE ParseMembers(_, _, _)
RECURSIVE ParseElements(_, _, _)

ParseValue(text, i0) ==
  LET Opened(i, j) ==
        IF text[i] = "{"
        THEN IF At(text, j, "}") THEN ParseOk(EmptyObject, j + 1)
             ELSE ParseMembers(text, j, <<>>)
        ELSE IF At(text, j, "]") THEN ParseOk(JArray(<<>>), j + 1)
             ELSE ParseElements(text, j, <<>>)
      Value(i) ==
        IF i > Len(text) THEN ParseFail
        ELSE IF text[i] \in {"{", "["} THEN Opened(i, SkipWs(text, i + 1))
        ELSE IF text[i] = QUOTE THEN ParseStringBody(text, i + 1, <<>>)
        ELSE IF text[i] \in DigitChars \cup {"-"} THEN ParseNumber(text, i)
        ELSE IF text[i] \in {"t", "f", "n"}
          THEN ParseWord(text, i,
                         IF text[i] = "t" THEN <<"t", "r", "u", "e">>
                         ELSE IF text[i] = "f" THEN <<"f", "a", "l", "s", "e">>
                         ELSE <<"n", "u", "l", "l">>,
                         IF text[i] = "n" THEN JNull ELSE JBool(text[i] = "t"))
        ELSE ParseFail
  IN Value(SkipWs(text, i0))

(* "key": value, then "," and another member or "}" *)
ParseMembers(text, i, acc) ==
  LET Continue(d, acc2) ==
        IF At(text, d, ",") THEN ParseMembers(text, SkipWs(text, d + 1), acc2)
        ELSE IF At(text, d, "}") THEN ParseOk(JObject(acc2), d + 1)
        ELSE ParseFail
      Valued(key, val) ==
        IF ~val.ok THEN ParseFail
        ELSE Continue(SkipWs(text, val.i), MapInsert(acc, key.v.s, val.v))
      Colon(key, c) ==
        IF ~At(text, c, ":") THEN ParseFail
        ELSE Valued(key, ParseValue(text, c + 1))
      Keyed(key) ==
        IF ~key.ok THEN ParseFail ELSE Colon(key, SkipWs(text, key.i))
  IN IF ~At(text, i, QUOTE) THEN ParseFail
     ELSE Keyed(ParseStringBody(text, i + 1, <<>>))

ParseElements(text, i, acc) ==
  LET Continue(d, acc2) ==
        IF At(text, d, ",") THEN ParseElements(text, d + 1, acc2)
        ELSE IF At(text, d, "]") THEN ParseOk(JArray(acc2), d + 1)
        ELSE ParseFail
      Valued(val) ==
        IF ~val.ok THEN ParseFail
        ELSE Continue(SkipWs(text, val.i), Append(acc, Elem(val.v)))
  IN Valued(ParseValue(text, i))

(* serde_json::from_str::<Value>: one value, then only whitespace *)
FromStrValue(text) ==
  LET Complete(r) ==
        IF r.ok /\ SkipWs(text, r.i) = Len(text) + 1 THEN r ELSE ParseFail
  IN Complete(ParseValue(text, 1))

(* serde_json::from_value::<Document>: only a JSON object is a document *)
FromValueDocument(val) ==
  IF val.t = "object" THEN ParseOk(val, 0) ELSE ParseFail

(* serde_json::from_str::<Document> *)
FromStrDocument(text) ==
  LET Document(r) == IF r.ok THEN FromValueDocument(r.v) ELSE ParseFail
  IN Document(FromStrValue(text))

(* serde_json::from_str::<Vec<Document>>: an array whose elements are all  *)
(* objects                                                                 *)
FromStrDocuments(text) ==
  LET Documents(r) ==
        IF r.ok /\ r.v.t = "array" /\ \A i \in 1..Len(r.v.m) : r.v.m[i].v.t = "object"
        THEN r ELSE ParseFail
  IN Documents(FromStrValue(text))

(***************************************************************************)
(* serde_json::to_string                                                   *)
(***************************************************************************)
(* an escaping that leaves a backslash as it is *)
EscapeCharKeepsBackslash(c) ==
  IF c = QUOTE THEN <<BSLASH, QUOTE>>
  ELSE IF c = NEWLINE THEN <<BSLASH, "n">>
  ELSE <<c>>

EscapeChar(c) ==
  IF c = QUOTE THEN <<BSLASH, QUOTE>>
  ELSE IF c = BSLASH THEN <<BSLASH, BSLASH>>
  ELSE IF c = NEWLINE THEN <<BSLASH, "n">>
  ELSE <<c>>

RECURSIVE EscapeChars(_)
EscapeChars(chars) ==
  IF chars = <<>> THEN <<>> ELSE EscapeChar(Head(chars)) \o EscapeChars(Tail(chars))

(* serde_json::to_string(&str): the JSON string literal of the text *)
ToJsonString(chars) == <<QUOTE>> \o EscapeChars(chars) \o <<QUOTE>>

RECURSIVE ToJson(_)
RECURSIVE ToJsonList(_, _, _)

(* Value::to_string: compact JSON *)
ToJson(val) ==
  IF val.t = "object" THEN <<"{">> \o ToJsonList(val.m, 1, TRUE) \o <<"}">>
  ELSE IF val.t = "array" THEN <<"[">> \o ToJsonList(val.m, 1, FALSE) \o <<"]">>
  ELSE IF val.t = "string" THEN ToJsonString(val.s)
  ELSE IF val.t = "number" THEN val.s
  ELSE IF val.t = "true" THEN <<"t", "r", "u", "e">>
  ELSE IF val.t = "false" THEN <<"f", "a", "l", "s", "e">>
  ELSE <<"n", "u", "l", "l">>

ToJsonList(members, i, keyed) ==
  IF i > Len(members) THEN <<>>
  ELSE (IF i > 1 THEN <<",">> ELSE <<>>)
       \o (IF keyed THEN ToJsonString(members[i].k) \o <<":">> ELSE <<>>)
       \o ToJson(members[i].v)
       \o ToJsonList(members, i + 1, keyed)

(***************************************************************************)
(* QueryOperation and QueryOptions                                         *)
(***************************************************************************)
QueryOperations == {"Find", "Aggregate", "CountDocuments", "Distinct"}

(* QueryOptions::default() *)
DefaultOptions ==
  [limit |-> None, sort |-> None, projection |-> None, distinct_field |-> None]

UpperChars == <<"A", "C", "D", "F", "G", "I", "N", "O", "S", "T", "U">>
LowerChars == <<"a", "c", "d", "f", "g", "i", "n", "o", "s", "t", "u">>

(* char::to_lowercase on the letters that occur in operation names *)
ToLowerChar(c) ==
  IF \E i \in 1..Len(UpperChars) : UpperChars[i] = c
  THEN LowerChars[CHOOSE i \in 1..Len(UpperChars) : UpperChars[i] = c]
  ELSE c

(* str::to_lowercase *)
ToLowercase(text) == [i \in 1..Len(text) |-> ToLowerChar(text[i])]

(* QueryOperationType::as_str *)
as_str(op) ==
  CASE op = "Find" -> <<"f", "i", "n", "d">>
    [] op = "Aggregate" -> <<"a", "g", "g", "r", "e", "g", "a", "t", "e">>
    [] op = "CountDocuments" ->
         <<"c", "o", "u", "n", "t", "D", "o", "c", "u", "m", "e", "n", "t", "s">>
    [] op = "Distinct" -> <<"d", "i", "s", "t", "i", "n", "c", "t">>

(* QueryOperation::from_str: [ok, op] *)
from_str(text) ==
  LET lower == ToLowercase(text)
  IN IF lower = <<"f", "i", "n", "d">> THEN [ok |-> TRUE, op |-> "Find"]
     ELSE IF lower = <<"a", "g", "g", "r", "e", "g", "a", "t", "e">>
       THEN [ok |-> TRUE, op |-> "Aggregate"]
     ELSE IF lower = <<"c", "o", "u", "n", "t", "d", "o", "c", "u", "m", "e", "n", "t", "s">>
       THEN [ok |-> TRUE, op |-> "CountDocuments"]
     ELSE IF lower = <<"d", "i", "s", "t", "i", "n", "c", "t">>
       THEN [ok |-> TRUE, op |-> "Distinct"]
     ELSE [ok |-> FALSE, op |-> "Invalid operation"]

(***************************************************************************)
(* Error messages of the two renderers, and the part of the request each   *)
(* one blames.                                                             *)
(***************************************************************************)
(* the error contexts of to_mongosh_code *)
ScriptMsg ==
  [QueryNotJson |-> "Query is not valid JSON",
   ProjectionNotJson |-> "Projection is not valid JSON",
   SortNotJson |-> "Sort is not valid JSON",
   DistinctField |-> "Distinct requires 'distinct_field' parameter"]

(* the error contexts of execute_operation *)
CallMsg ==
  [FindQuery |-> "Invalid query JSON for find operation",
   SortJson |-> "Invalid sort JSON",
   ProjectionJson |-> "Invalid projection JSON",
   Pipeline |-> "Invalid aggregation pipeline JSON",
   CountQuery |-> "Invalid query JSON for countDocuments",
   DistinctQuery |-> "Invalid distinct query JSON",
   DistinctField |-> "Distinct requires 'distinct_field' parameter",
   DistinctFilter |-> "Invalid filter JSON for distinct",
   LegacyFilter |-> "Invalid filter in distinct query"]

OffendingPart(msg) ==
  IF msg \in {ScriptMsg.QueryNotJson, CallMsg.FindQuery, CallMsg.Pipeline, CallMsg.CountQuery,
              CallMsg.DistinctQuery, CallMsg.DistinctFilter, CallMsg.LegacyFilter} THEN "query"
  ELSE IF msg \in {ScriptMsg.ProjectionNotJson, CallMsg.ProjectionJson} THEN "projection"
  ELSE IF msg \in {ScriptMsg.SortNotJson, CallMsg.SortJson} THEN "sort"
  ELSE IF msg = ScriptMsg.DistinctField THEN "distinct_field"
  ELSE "none"

(***************************************************************************)
(* QueryOperation::to_mongosh_code: the remote-eval renderer.              *)
(* Result [ok, msg, code, eff]: code is the script, eff the texts the      *)
(* script embeds as filter, projection, sort, limit and distinct field.    *)
(***************************************************************************)
NoEffect ==
  [filter |-> None, projection |-> None, sort |-> None, limit |-> None,
   field |-> None]

ScriptErr(m) == [ok |-> FALSE, msg |-> m, code |-> <<>>, eff |-> NoEffect]
ScriptOk(c, e) == [ok |-> TRUE, msg |-> "", code |-> c, eff |-> e]

EmptyObjectText == <<"{", "}">>
FIELD == <<"f", "i", "e", "l", "d">>
QUERY == <<"q", "u", "e", "r", "y">>

(* db[<JSON string of the collection name>] *)
CollectionAccess(collection) == <<"db[">> \o ToJsonString(collection) \o <<"]">>

Stringify(expr) == <<"JSON.stringify(">> \o expr \o <<")">>

(* options.projection.as_deref().unwrap_or("{}") *)
ProjectionText(options) ==
  IF IsSome(options.projection) THEN Unwrap(options.projection) ELSE EmptyObjectText

(* a validation of projection and sort made for every operation *)
ScriptOptionErrorAnyOperation(op, options) ==
  IF ~FromStrValue(ProjectionText(options)).ok THEN ScriptMsg.ProjectionNotJson
  ELSE IF IsSome(options.sort) /\ ~FromStrValue(Unwrap(options.sort)).ok
    THEN ScriptMsg.SortNotJson
  ELSE ""

(* the JSON validation of projection, then sort, made in the Find arm only *)
ScriptOptionError(op, options) ==
  IF op # "Find" THEN ""
  ELSE IF ~FromStrValue(ProjectionText(options)).ok THEN ScriptMsg.ProjectionNotJson
  ELSE IF IsSome(options.sort) /\ ~FromStrValue(Unwrap(options.sort)).ok
    THEN ScriptMsg.SortNotJson
  ELSE ""

FindCode(coll, query, options) ==
  Stringify(
    coll \o <<".find(">> \o query \o <<",", " ">> \o ProjectionText(options) \o <<")">>
    \o (IF IsSome(options.sort)
        THEN <<".sort(">> \o Unwrap(options.sort) \o <<")">> ELSE <<>>)
    \o (IF IsSome(options.limit)
        THEN <<".limit(">> \o Decimal(Unwrap(options.limit)) \o <<")">> ELSE <<>>)
    \o <<".toArray()">>)

AggregateCode(coll, query) ==
  Stringify(coll \o <<".aggregate(">> \o query \o <<")", ".toArray()">>)

(* a count script that is wrapped like the others *)
CountCodeWrapped(coll, query) ==
  Stringify(coll \o <<".countDocuments(">> \o query \o <<")">>)

(* countDocuments returns a number: no JSON.stringify *)
CountCode(coll, query) == coll \o <<".countDocuments(">> \o query \o <<")">>

DistinctCode(coll, field, filter) ==
  Stringify(coll \o <<".distinct(">> \o ToJsonString(field) \o <<",", " ">>
              \o filter \o <<")">>)

(* a legacy field lookup that takes a number for a name *)
LegacyFieldAnyValue(distinct_params) ==
  LET Name(v) ==
        IF IsSome(v) /\ Unwrap(v).t \in {"string", "number"} THEN Some(Unwrap(v).s)
        ELSE None
  IN Name(ValueGet(distinct_params, FIELD))

(* legacy shape: distinct_params.get("field").and_then(|v| v.as_str()) *)
LegacyField(distinct_params) ==
  LET Name(v) == IF IsSome(v) THEN AsStr(Unwrap(v)) ELSE None
  IN Name(ValueGet(distinct_params, FIELD))

(* a legacy filter that is always empty *)
LegacyFilterTextEmpty(distinct_params) == EmptyObjectText

(* legacy shape: distinct_params.get("query") re-serialised, or "{}" *)
LegacyFilterText(distinct_params) ==
  LET Text(v) == IF IsSome(v) THEN ToJson(Unwrap(v)) ELSE EmptyObjectText
  IN Text(ValueGet(distinct_params, QUERY))

to_mongosh_code(op, collection, query, options) ==
  LET Distinct(coll, field, filter) ==
        IF ~IsSome(field) THEN ScriptErr(ScriptMsg.DistinctField)
        ELSE ScriptOk(DistinctCode(coll, Unwrap(field), filter),
                      [NoEffect EXCEPT !.filter = Some(filter), !.field = field])
      Code(parsed, coll, optionError) ==
        IF ~parsed.ok THEN ScriptErr(ScriptMsg.QueryNotJson)
        ELSE IF optionError # "" THEN ScriptErr(optionError)
        ELSE IF op = "Find" THEN
          ScriptOk(FindCode(coll, query, options),
                   [filter |-> Some(query),
                    projection |-> Some(ProjectionText(options)),
                    sort |-> options.sort, limit |-> options.limit,
                    field |-> None])
        ELSE IF op = "Aggregate" THEN
          ScriptOk(AggregateCode(coll, query), [NoEffect EXCEPT !.filter = Some(query)])
        ELSE IF op = "CountDocuments" THEN
          ScriptOk(CountCode(coll, query), [NoEffect EXCEPT !.filter = Some(query)])
        ELSE IF IsSome(options.distinct_field)
          THEN Distinct(coll, options.distinct_field, query)
        ELSE Distinct(coll, LegacyField(parsed.v), LegacyFilterText(parsed.v))
  IN Code(FromStrValue(query), CollectionAccess(collection),
          ScriptOptionError(op, options))

(***************************************************************************)
(* DirectConnection::execute_operation up to the driver call: the          *)
(* driver-call renderer.  Result [ok, msg, call]: call holds the typed     *)
(* arguments handed to the driver.                                         *)
(***************************************************************************)
NoCall ==
  [op |-> "none", filter |-> None, projection |-> None, sort |-> None,
   limit |-> None, field |-> None]

CallErr(m) == [ok |-> FALSE, msg |-> m, call |-> NoCall]
CallOk(c) == [ok |-> TRUE, msg |-> "", call |-> c]

(* the parse of an optional text: [ok, v], v the Some(document) of a       *)
(* supplied text, None for an absent one                                   *)
OptionDocument(text) ==
  LET Supplied(r) == [ok |-> r.ok, v |-> Some(r.v)]
  IN IF IsSome(text) THEN Supplied(FromStrDocument(Unwrap(text)))
     ELSE [ok |-> TRUE, v |-> None]

(* the Find arm: the filter, then the sort, then the projection *)
FindCall(filter, sort, projection, limit) ==
  IF ~filter.ok THEN CallErr(CallMsg.FindQuery)
  ELSE IF ~sort.ok THEN CallErr(CallMsg.SortJson)
  ELSE IF ~projection.ok THEN CallErr(CallMsg.ProjectionJson)
  ELSE CallOk([op |-> "Find", filter |-> Some(filter.v),
               projection |-> projection.v, sort |-> sort.v,
               limit |-> limit, field |-> None])

(* legacy shape: params.get("field").and_then(|v| v.as_str()) *)
DirectLegacyField(params) ==
  LET Name(v) == IF IsSome(v) THEN AsStr(Unwrap(v)) ELSE None
  IN Name(ValueGet(params, FIELD))

(* legacy shape: params.get("query") as a document, or the empty document *)
DirectLegacyFilter(params) ==
  LET Filter(v) ==
        IF IsSome(v) THEN FromValueDocument(Unwrap(v)) ELSE ParseOk(EmptyObject, 0)
  IN Filter(ValueGet(params, QUERY))

execute_operation(op, query_str, options) ==
  LET One(filter, msg) ==
        IF ~filter.ok THEN CallErr(msg)
        ELSE CallOk([NoCall EXCEPT !.op = op, !.filter = Some(filter.v)])
      Distinct(field, filter, msg) ==
        IF ~IsSome(field) THEN CallErr(CallMsg.DistinctField)
        ELSE IF ~filter.ok THEN CallErr(msg)
        ELSE CallOk([NoCall EXCEPT !.op = "Distinct", !.filter = Some(filter.v),
                                   !.field = field])
      Legacy(params) ==
        IF ~params.ok THEN CallErr(CallMsg.DistinctQuery)
        ELSE Distinct(DirectLegacyField(params.v), DirectLegacyFilter(params.v),
                      CallMsg.LegacyFilter)
  IN IF op = "Find"
       THEN FindCall(FromStrDocument(query_str), OptionDocument(options.sort),
                     OptionDocument(options.projection), options.limit)
     ELSE IF op = "Aggregate" THEN One(FromStrDocuments(query_str), CallMsg.Pipeline)
     ELSE IF op = "CountDocuments" THEN One(FromStrDocument(query_str), CallMsg.CountQuery)
     ELSE IF IsSome(options.distinct_field)
       THEN Distinct(options.distinct_field, FromStrDocument(query_str),
                     CallMsg.DistinctFilter)
     ELSE Legacy(FromStrValue(query_str))

(***************************************************************************)
(* parse_mongosh_output: the output classifier of the cluster backend.     *)
(* Result [ok, text, chain]: the accepted text, or the error as its chain  *)
(* of messages (anyhow context first, causes after), each a text.          *)
(***************************************************************************)
MONGO_SERVER_ERROR ==
  <<"M", "o", "n", "g", "o", "S", "e", "r", "v", "e", "r", "E", "r", "r", "o", "r">>
MONGO_ERROR == <<"M", "o", "n", "g", "o", "E", "r", "r", "o", "r">>
NS_NOT_FOUND == <<"n", "s", " ", "n", "o", "t", " ", "f", "o", "u", "n", "d">>
DOESNT_EXIST == <<"d", "o", "e", "s", "n", "'", "t", " ", "e", "x", "i", "s", "t">>
AUTH_FAILED ==
  <<"A", "u", "t", "h", "e", "n", "t", "i", "c", "a", "t", "i", "o", "n", " ",
    "f", "a", "i", "l", "e", "d">>
TIMED_OUT == <<"t", "i", "m", "e", "d", " ", "o", "u", "t">>
TIMEOUT == <<"t", "i", "m", "e", "o", "u", "t">>
SYNTAX_ERROR == <<"S", "y", "n", "t", "a", "x", "E", "r", "r", "o", "r">>
INVALID == <<"I", "n", "v", "a", "l", "i", "d">>

Ok(t) == [ok |-> TRUE, text |-> t, chain |-> <<>>]
Err(c) == [ok |-> FALSE, text |-> <<>>, chain |-> c]

(* the digits of a decimal fraction: digits, optionally "." and digits *)
IsDecimal(text) ==
  LET Fraction(e) ==
        \/ e > 1 /\ e = Len(text) + 1
        \/ e > 1 /\ At(text, e, ".") /\ ParseDigits(text, e + 1) = Len(text) + 1
        \/ e = 1 /\ At(text, 1, ".") /\ Len(text) > 1
             /\ ParseDigits(text, 2) = Len(text) + 1
  IN Fraction(ParseDigits(text, 1))

(* only str::parse::<i64>() is tried *)
ParsesAsInteger(text) ==
  LET Unsigned(body) == body # <<>> /\ ParseDigits(body, 1) = Len(body) + 1
  IN Unsigned(IF At(text, 1, "-") \/ At(text, 1, "+") THEN Tail(text) ELSE text)

(* str::parse::<i64>() or str::parse::<f64>() succeeds *)
ParsesAsNumber(text) ==
  LET Unsigned(body) ==
        \/ IsDecimal(body)
        \/ ToLowercase(body) \in {<<"i", "n", "f">>, <<"n", "a", "n">>}
  IN Unsigned(IF At(text, 1, "-") \/ At(text, 1, "+") THEN Tail(text) ELSE text)

(* the timeout class tested before the authentication class *)
ParseOutputTimeoutBeforeAuthentication(raw_output) ==
  LET Classify(trimmed) ==
        IF trimmed = <<>> THEN Err(<<<<"Query returned empty output">>>>)
        ELSE IF Contains(trimmed, MONGO_SERVER_ERROR) \/ Contains(trimmed, MONGO_ERROR)
        THEN
          IF Contains(trimmed, NS_NOT_FOUND) \/ Contains(trimmed, DOESNT_EXIST)
            THEN Err(<<<<"Collection not found">> \o trimmed>>)
          ELSE IF Contains(trimmed, TIMED_OUT) \/ Contains(trimmed, TIMEOUT)
            THEN Err(<<<<"Query timed out">> \o trimmed>>)
          ELSE IF Contains(trimmed, AUTH_FAILED)
            THEN Err(<<<<"MongoDB authentication failed">> \o trimmed>>)
          ELSE IF Contains(trimmed, SYNTAX_ERROR) \/ Contains(trimmed, INVALID)
            THEN Err(<<<<"Invalid query syntax">> \o trimmed>>)
          ELSE Err(<<<<"MongoDB error">> \o trimmed>>)
        ELSE IF FromStrValue(trimmed).ok THEN Ok(trimmed)
        ELSE IF ParsesAsNumber(trimmed) THEN Ok(trimmed)
        ELSE Err(<<<<"Failed to parse query result">> \o trimmed \o <<"Parse error">>>>)
  IN Classify(Trim(raw_output))

(* parse_mongosh_output: Ok(text) or Err(chain) *)
parse_mongosh_output(raw_output) ==
  LET Classify(trimmed) ==
        IF trimmed = <<>> THEN Err(<<<<"Query returned empty output">>>>)
        ELSE IF Contains(trimmed, MONGO_SERVER_ERROR) \/ Contains(trimmed, MONGO_ERROR)
        THEN
          IF Contains(trimmed, NS_NOT_FOUND) \/ Contains(trimmed, DOESNT_EXIST)
            THEN Err(<<<<"Collection not found">> \o trimmed>>)
          ELSE IF Contains(trimmed, AUTH_FAILED)
            THEN Err(<<<<"MongoDB authentication failed">> \o trimmed>>)
          ELSE IF Contains(trimmed, TIMED_OUT) \/ Contains(trimmed, TIMEOUT)
            THEN Err(<<<<"Query timed out">> \o trimmed>>)
          ELSE IF Contains(trimmed, SYNTAX_ERROR) \/ Contains(trimmed, INVALID)
            THEN Err(<<<<"Invalid query syntax">> \o trimmed>>)
          ELSE Err(<<<<"MongoDB error">> \o trimmed>>)
        ELSE IF FromStrValue(trimmed).ok THEN Ok(trimmed)
        ELSE IF ParsesAsNumber(trimmed) THEN Ok(trimmed)
        ELSE Err(<<<<"Failed to parse query result">> \o trimmed \o <<"Parse error">>>>)
  IN Classify(Trim(raw_output))

(***************************************************************************)
(* Inputs: names, query texts and option texts                             *)
(***************************************************************************)
NameChars == {"a", QUOTE, BSLASH, ";", "/"}

(* every text over NameChars of length at most MaxNameLen *)
Names == UNION {[1..n -> NameChars] : n \in 0..MaxNameLen}

USERS == <<"u", "s", "e", "r", "s">>

Q_EMPTY == <<"{", "}">>
Q_A1 == <<"{", QUOTE, "a", QUOTE, ":", " ", "1", "}">>
Q_ARRAY == <<"[", "]">>
Q_MATCH == <<"[", "{", QUOTE, "$", "m", "a", "t", "c", "h", QUOTE, ":", "{", "}", "}", "]">>
Q_OUT == <<"[", "{", QUOTE, "$", "o", "u", "t", QUOTE, ":", QUOTE, "x", QUOTE, "}", "]">>
Q_NUMS == <<"[", "1", "]">>
Q_ONE == <<"1">>
Q_BAD == <<"{", "a">>

(* the legacy distinct shape {"field": f, "query": q}, either key optional *)
LegacyText(fieldText, queryText) ==
  <<"{">>
  \o (IF IsSome(fieldText) THEN ToJsonString(FIELD) \o <<":">> \o Unwrap(fieldText)
      ELSE <<>>)
  \o (IF IsSome(fieldText) /\ IsSome(queryText) THEN <<",">> ELSE <<>>)
  \o (IF IsSome(queryText) THEN ToJsonString(QUERY) \o <<":">> \o Unwrap(queryText)
      ELSE <<>>)
  \o <<"}">>

F_NAME == <<"f">>
Q_LEGACY == LegacyText(Some(ToJsonString(F_NAME)), Some(Q_A1))
Q_LEGACY_NOQUERY == LegacyText(Some(ToJsonString(F_NAME)), None)
Q_LEGACY_NOFIELD == LegacyText(None, Some(Q_EMPTY))
Q_LEGACY_NUMFIELD == LegacyText(Some(Q_ONE), Some(Q_EMPTY))
Q_LEGACY_NUMQUERY == LegacyText(Some(ToJsonString(F_NAME)), Some(Q_ONE))

QueryTexts ==
  {Q_EMPTY, Q_A1, Q_ARRAY, Q_MATCH, Q_OUT, Q_NUMS, Q_ONE, Q_BAD, Q_LEGACY,
   Q_LEGACY_NOQUERY, Q_LEGACY_NOFIELD, Q_LEGACY_NUMFIELD, Q_LEGACY_NUMQUERY}

O_BAD == <<"x">>
SortTexts == {None, Some(Q_A1), Some(O_BAD)}
ProjectionTexts == {None, Some(Q_A1), Some(O_BAD), Some(Q_ONE)}
Limits == {None} \cup {Some(n) : n \in 0..MaxLimit}

Request(coll, op, q, lim, srt, proj, df) ==
  [collection_name |-> coll, operation |-> as_str(op), query |-> q, limit |-> lim,
   sort |-> srt, projection |-> proj, distinct_field |-> df]

(* the requests a caller makes: every collection name and every distinct    *)
(* field name with plain options, every query text for every operation, and *)
(* every combination of options                                             *)
NameRequests ==
  {Request(n, op, Q_EMPTY, None, None, None, None) :
     n \in Names, op \in QueryOperations}
  \cup {Request(n, "Distinct", q, None, None, None, Some(n)) :
          n \in Names, q \in {Q_EMPTY, Q_A1}}
  \cup {Request(USERS, "Distinct", LegacyText(Some(ToJsonString(n)), Some(Q_A1)),
                None, None, None, None) : n \in Names}

QueryRequests ==
  {Request(USERS, op, q, None, None, None, df) :
     op \in QueryOperations, q \in QueryTexts, df \in {None, Some(F_NAME)}}

OptionRequests ==
  {Request(USERS, op, q, lim, srt, proj, df) :
     op \in QueryOperations, q \in {Q_EMPTY, Q_BAD, Q_LEGACY}, lim \in Limits,
     srt \in SortTexts, proj \in ProjectionTexts, df \in {None, Some(F_NAME)}}

(* operation texts a caller may send: the four names, other casings, and   *)
(* names of operations that write                                           *)
OperationTexts ==
  {as_str(op) : op \in QueryOperations}
  \cup {<<"F", "I", "N", "D">>, <<"c", "o", "u", "n", "t", "d", "o", "c", "u", "m", "e", "n", "t", "s">>,
         <<"D", "i", "s", "t", "i", "n", "c", "t">>,
         <<"i", "n", "s", "e", "r", "t", "O", "n", "e">>,
         <<"u", "p", "d", "a", "t", "e", "O", "n", "e">>,
         <<"d", "e", "l", "e", "t", "e", "M", "a", "n", "y">>,
         <<"d", "r", "o", "p">>, <<"c", "o", "u", "n", "t">>, <<>>}

OperationRequests ==
  {[Request(USERS, "Find", q, None, None, None, None) EXCEPT !.operation = t] :
     t \in OperationTexts, q \in {Q_EMPTY, Q_OUT}}

Requests ==
  NameRequests \cup QueryRequests \cup OptionRequests \cup OperationRequests

OptionsOf(r) ==
  [limit |-> r.limit, sort |-> r.sort, projection |-> r.projection,
   distinct_field |-> r.distinct_field]

(***************************************************************************)
(* Saved-query templates: find_placeholders and substitute_placeholders    *)
(***************************************************************************)
(* the index of the last "}}" at or after j, 0 if there is none *)
FindCloseLast(text, j) ==
  LET closes == {q \in j..(Len(text) - 1) : text[q] = "}" /\ text[q + 1] = "}"}
  IN IF closes = {} THEN 0 ELSE CHOOSE q \in closes : \A r \in closes : r <= q

(* the index of the first "}}" at or after j, 0 if there is none *)
RECURSIVE FindClose(_, _)
FindClose(text, j) ==
  IF j + 1 > Len(text) THEN 0
  ELSE IF text[j] = "}" /\ text[j + 1] = "}" THEN j
  ELSE FindClose(text, j + 1)

RECURSIVE ScanPlaceholders(_, _, _)
ScanPlaceholders(text, i, placeholders) ==
  LET Closed(start, close) ==
        IF close = 0 THEN placeholders
        ELSE ScanPlaceholders(text, close + 2,
                              IF close > start
                              THEN placeholders \cup {SubSeq(text, start, close - 1)}
                              ELSE placeholders)
  IN IF i > Len(text) THEN placeholders
     ELSE IF i + 1 <= Len(text) /\ text[i] = "{" /\ text[i + 1] = "{"
       THEN Closed(i + 2, FindClose(text, i + 2))
     ELSE ScanPlaceholders(text, i + 1, placeholders)

find_placeholders(query) == ScanPlaceholders(query, 1, {})

MatchesAt(text, i, pat) ==
  /\ i + Len(pat) - 1 <= Len(text)
  /\ \A k \in 1..Len(pat) : text[i + k - 1] = pat[k]

(* str::replace: every non-overlapping match, left to right *)
RECURSIVE ReplaceFrom(_, _, _, _)
ReplaceFrom(text, i, pat, value) ==
  IF i > Len(text) THEN <<>>
  ELSE IF MatchesAt(text, i, pat) THEN value \o ReplaceFrom(text, i + Len(pat), pat, value)
  ELSE <<text[i]>> \o ReplaceFrom(text, i + 1, pat, value)

Replace(text, pat, value) == ReplaceFrom(text, 1, pat, value)

(* the loop over the map's entries, in the order the map iterates them *)
RECURSIVE SubstituteInOrder(_, _, _)
SubstituteInOrder(text, variables, order) ==
  IF order = <<>> THEN text
  ELSE SubstituteInOrder(
         Replace(text, <<"{", "{">> \o Head(order) \o <<"}", "}">>,
                 variables[Head(order)]),
         variables, Tail(order))

(* the orders in which a HashMap with these keys can iterate *)
IterationOrders(keys) ==
  {o \in [1..Cardinality(keys) -> keys] :
     \A i, j \in 1..Cardinality(keys) : i # j => o[i] # o[j]}

(* only the first missing name is reported *)
SubstituteReportingFirstMissing(query, variables, order) ==
  LET Result(missing) ==
        IF missing # {}
        THEN [ok |-> FALSE, text |-> <<>>,
              missing |-> {CHOOSE p \in missing : TRUE}]
        ELSE [ok |-> TRUE, text |-> SubstituteInOrder(query, variables, order),
              missing |-> {}]
  IN Result({p \in find_placeholders(query) : p \notin DOMAIN variables})

(* substitute_placeholders: [ok, text, missing] *)
substitute_placeholders(query, variables, order) ==
  LET Result(missing) ==
        IF missing # {} THEN [ok |-> FALSE, text |-> <<>>, missing |-> missing]
        ELSE [ok |-> TRUE, text |-> SubstituteInOrder(query, variables, order),
              missing |-> {}]
  IN Result({p \in find_placeholders(query) : p \notin DOMAIN variables})

(***************************************************************************)
(* SavedQueries                                                            *)
(***************************************************************************)
SavedQuery(name, description, collection, operation, query, created, updated) ==
  [name |-> name, description |-> description, collection |-> collection,
   operation |-> operation, query |-> query, created_at |-> created,
   updated_at |-> updated]

(* SavedQueries::get_query: the first entry with the name *)
get_query(queries, name) ==
  IF \E i \in 1..Len(queries) : queries[i].name = name
  THEN Some(queries[CHOOSE i \in 1..Len(queries) :
                      /\ queries[i].name = name
                      /\ \A j \in 1..(i - 1) : queries[j].name # name])
  ELSE None

(* an upsert that also stamps the creation time of the entry it updates *)
UpsertResettingCreated(queries, name, description, collection, operation, query, now) ==
  LET Stamped(found) ==
        IF found = {}
        THEN Append(queries, SavedQuery(name, description, collection,
                                        operation, query, now, now))
        ELSE [i \in 1..Len(queries) |->
                IF i \in found
                THEN SavedQuery(name, description, collection, operation,
                                query, now, now)
                ELSE queries[i]]
  IN Stamped({i \in 1..Len(queries) : queries[i].name = name})

(* an upsert that never looks for the name *)
UpsertAlwaysAppending(queries, name, description, collection, operation, query, now) ==
  Append(queries, SavedQuery(name, description, collection, operation, query,
                             now, now))

(* SavedQueries::upsert_query, now being its reading of Utc::now(): the     *)
(* first entry with the name is updated in place, else one is pushed        *)
upsert_query(queries, name, description, collection, operation, query, now) ==
  LET Updated(existing) ==
        [existing EXCEPT !.description = description,
                         !.collection = collection,
                         !.operation = operation,
                         !.query = query,
                         !.updated_at = now]
      Upsert(found) ==
        IF found # {}
        THEN [queries EXCEPT ![CHOOSE i \in found : \A j \in found : i <= j] =
                               Updated(@)]
        ELSE Append(queries, SavedQuery(name, description, collection,
                                        operation, query, now, now))
  IN Upsert({i \in 1..Len(queries) : queries[i].name = name})

(* Vec::retain(|q| q.name != name) *)
Retain(queries, name) ==
  SelectSeq(queries, LAMBDA q : q.name # name)

(* SavedQueries::delete_query: [queries, deleted], deleted being whether    *)
(* the list got shorter                                                     *)
delete_query(queries, name) ==
  [queries |-> Retain(queries, name),
   deleted |-> Len(Retain(queries, name)) < Len(queries)]

(* saved-query templates and the variables a caller passes *)
T_BY_A == <<"{", QUOTE, "a", QUOTE, ":", " ", "{", "{", "x", "}", "}", "}">>
X_NAME == <<"x">>
Y_NAME == <<"y">>
T_BY_A_AND_B ==
  <<"{", QUOTE, "a", QUOTE, ":", " ", "{", "{", "x", "}", "}", ",", " ",
    QUOTE, "b", QUOTE, ":", " ", "{", "{", "y", "}", "}", "}">>

(* the store files found at startup, written by earlier save_query calls *)
StoredQueries ==
  <<SavedQuery("by_a", "documents by a", USERS, as_str("Find"), T_BY_A, 0, 0),
    SavedQuery("count_all", "number of documents", USERS,
               as_str("CountDocuments"), Q_EMPTY, 0, 0),
    SavedQuery("values_of_f", "values of f", USERS, as_str("Distinct"),
               Q_LEGACY, 0, 0),
    SavedQuery("by_a_and_b", "documents by a and b", USERS, as_str("Find"),
               T_BY_A_AND_B, 0, 0)>>

QueryNames == {"by_a", "count_all", "values_of_f", "by_a_and_b", "unknown"}

VariableMaps == {None, Some(<<>>), Some([n \in {X_NAME} |-> <<"1">>])}


(***************************************************************************)
(* State                                                                   *)
(***************************************************************************)
VARIABLES
  database,  \* per connection, the collections its database holds
  client,    \* DirectConnection.client, the once-initialised driver handle
  store,     \* per connection, the persisted list of saved queries
  clock,     \* Utc::now()
  call,      \* the tool call handled last
  sent,      \* what that call sent to the database, if anything
  reply,     \* what that call returned to the caller
  expired,   \* whether that call's timeout elapsed while it waited
  semaphore, \* the OnceCell's one-permit semaphore: free, held or closed
  tasks,     \* per concurrent caller of get_client, where it stands
  attempts,  \* the runs of the client-construction closure, in order
  raw_output, \* the text a remote mongosh printed, once it has
  parse_result, \* what parse_mongosh_output made of it
  finding,   \* a call of find_placeholders: its argument and its result
  substitution, \* a call of substitute_placeholders: arguments and result
  config,    \* the Config main loaded, once it has
  registry,  \* the ConnectionRegistry: name -> connection_type()
  startup,   \* how far main has got
  lookup,    \* what the last ConnectionRegistry::get of a handler returned
  writers, \* per concurrent store call, its frame: the call, what it loaded
  written, \* the calls that wrote a store file, in the order of their writes
  pod_list, \* the pod listing the cluster returned to find_healthy_pod, once it has
  healthy_pod, \* what find_healthy_pod returned for it
  exec, \* a call of exec_command_in_pod: its timeout, the time it has waited, the two output channels, its result
  env_request, \* a call of get_pod_env_vars: the names asked for and the pod the cluster returned
  env_result, \* what get_pod_env_vars returned for it
  cluster, \* the frame of a cluster-backed execute_query: where it is, its locals, its result
  trips \* the network round trips of that call, in order

handlerVars == <<database, client, store, clock, call, sent, reply, expired>>
cellVars == <<semaphore, tasks, attempts>>
parseVars == <<raw_output, parse_result>>
templateVars == <<finding, substitution>>
startupVars == <<config, registry, startup, lookup>>
raceVars == <<writers, written>>
podVars == <<pod_list, healthy_pod>>
execVars == <<exec>>
envVars == <<env_request, env_result>>
clusterVars == <<cluster, trips>>
vars == <<handlerVars, cellVars, parseVars, templateVars, startupVars, raceVars, podVars, execVars, envVars, clusterVars>>

(* the variables a handler, a get_client caller, the output classifier,    *)
(* the template engine and main leave alone                                *)
exceptHandler ==
  <<cellVars, parseVars, templateVars, startupVars, raceVars, podVars, execVars, envVars, clusterVars>>
exceptCell ==
  <<parseVars, templateVars, startupVars, raceVars, podVars, execVars, envVars, clusterVars>>
exceptParse ==
  <<handlerVars, cellVars, templateVars, startupVars, raceVars, podVars, execVars, envVars, clusterVars>>
exceptTemplate ==
  <<handlerVars, cellVars, parseVars, startupVars, raceVars, podVars, execVars, envVars, clusterVars>>
exceptStartup ==
  <<handlerVars, cellVars, parseVars, templateVars, raceVars, podVars, execVars, envVars, clusterVars>>
exceptRace ==
  <<cellVars, parseVars, templateVars, startupVars, podVars, execVars, envVars, clusterVars>>
exceptPod ==
  <<handlerVars, cellVars, parseVars, templateVars, startupVars, raceVars, execVars, envVars, clusterVars>>
exceptExec ==
  <<handlerVars, cellVars, parseVars, templateVars, startupVars, raceVars, podVars, envVars, clusterVars>>
exceptEnv ==
  <<handlerVars, cellVars, parseVars, templateVars, startupVars, raceVars, podVars, execVars, clusterVars>>
exceptCluster ==
  <<handlerVars, cellVars, parseVars, templateVars, startupVars, raceVars, podVars, execVars, envVars>>

(* the registry built at startup: connection name -> connection_type() *)
Registry == [cluster |-> "kubernetes", direct |-> "direct"]
ConnectionNames == DOMAIN Registry
CallerConnectionNames == ConnectionNames \cup {"ghost"}

QueryTimeoutSecs == 30

WARNING == "Note: limit/sort/projection only apply to find operations (ignored)"

(* format_error: the chain's messages joined by ": " *)
RECURSIVE format_error(_)
format_error(chain) ==
  IF chain = <<>> THEN <<>>
  ELSE IF Len(chain) = 1 THEN chain[1]
  ELSE chain[1] \o <<":", " ">> \o format_error(Tail(chain))

(* anyhow chain of a renderer error: with_context / context wrap the JSON   *)
(* error, anyhow! has no cause                                              *)
ErrorChain(msg) ==
  IF msg = ScriptMsg.DistinctField THEN <<<<msg>>>>
  ELSE <<<<msg>>, <<"JSON error">>>>

(***************************************************************************)
(* The database server.  A query returns the matching documents or a       *)
(* count; an aggregation pipeline stage $out or $merge naming a collection *)
(* writes that collection.                                                 *)
(***************************************************************************)
InitialDatabase == [c \in ConnectionNames |-> {USERS}]

OUT_STAGE == <<"$", "o", "u", "t">>
MERGE_STAGE == <<"$", "m", "e", "r", "g", "e">>

WriteTargets(pipeline) ==
  IF pipeline.t # "array" THEN {}
  ELSE {Unwrap(ValueGet(pipeline.m[i].v, key)).s :
          <<i, key>> \in
            {<<j, k>> \in (1..Len(pipeline.m)) \X {OUT_STAGE, MERGE_STAGE} :
               /\ IsSome(ValueGet(pipeline.m[j].v, k))
               /\ Unwrap(ValueGet(pipeline.m[j].v, k)).t = "string"}}

ResultText(op) ==
  IF op = "CountDocuments" THEN <<"3">> ELSE <<"[", "]">>

(***************************************************************************)
(* K8sConnection::execute_query with execute_mongosh_query: pod discovery, *)
(* credential resolution, script rendering, exec, output classification.   *)
(* Result [result, sent, written].                                         *)
(***************************************************************************)
K8sOutcomes == {"no_pod", "no_credentials", "exec_timeout", "stdout", "server_error"}

RawOutput(outcome, op) ==
  IF outcome = "stdout" THEN ResultText(op) \o <<NEWLINE>>
  ELSE MONGO_SERVER_ERROR \o <<":", " ">> \o NS_NOT_FOUND \o <<NEWLINE>>

NothingSent(res) ==
  [result |-> res, sent |-> None, written |-> {}, expired |-> FALSE]

K8sExecuteQuery(collection, op, query, options, outcome) ==
  LET Exec(eval_code) ==
        IF ~eval_code.ok THEN NothingSent(Err(ErrorChain(eval_code.msg)))
        ELSE IF outcome = "exec_timeout"
          THEN [result |-> Err(<<<<"Failed to execute mongosh command">>,
                                  <<"Command execution ", "timed out">>,
                                  <<"deadline has elapsed">>>>),
                sent |-> Some(eval_code.code), written |-> {}, expired |-> TRUE]
        ELSE [result |-> parse_mongosh_output(RawOutput(outcome, op)),
              sent |-> Some(eval_code.code),
              written |-> IF op = "Aggregate" /\ outcome = "stdout"
                          THEN WriteTargets(FromStrValue(query).v) ELSE {},
              expired |-> FALSE]
  IN IF outcome = "no_pod" THEN NothingSent(Err(<<<<"No healthy pods found">>>>))
     ELSE IF outcome = "no_credentials"
       THEN NothingSent(Err(<<<<"MongoDB credentials not found">>>>))
     ELSE Exec(to_mongosh_code(op, collection, query, options))

(***************************************************************************)
(* DirectConnection::execute_query with get_client and execute_operation.  *)
(* Result [result, sent, written, client].                                 *)
(***************************************************************************)
DirectOutcomes == {"client_error", "timeout", "driver_error", "result"}

DirectExecuteQuery(op, query, options, timeout_secs, outcome) ==
  LET Run(rendered) ==
        IF ~rendered.ok
        THEN [result |-> Err(ErrorChain(rendered.msg)), sent |-> None,
              written |-> {}, client |-> "ready", expired |-> FALSE]
        ELSE [result |->
                IF outcome = "timeout"
                  THEN Err(<<<<"Query ", "timed out after ">>
                             \o Decimal(timeout_secs) \o <<" seconds">>>>)
                ELSE IF outcome = "driver_error"
                  THEN Err(<<<<"query failed">>, <<"driver error">>>>)
                ELSE Ok(ResultText(op)),
              sent |-> Some(rendered.call),
              written |-> IF op = "Aggregate" /\ outcome = "result"
                          THEN WriteTargets(Unwrap(rendered.call.filter)) ELSE {},
              client |-> "ready", expired |-> outcome = "timeout"]
  IN IF client = "uninit" /\ outcome = "client_error"
     THEN [result |-> Err(<<<<"Failed to parse MongoDB connection URL">>,
                            <<"URL error">>>>),
           sent |-> None, written |-> {}, client |-> "uninit", expired |-> FALSE]
     ELSE Run(execute_operation(op, query, options))

(***************************************************************************)
(* The tool handlers                                                       *)
(***************************************************************************)
Idle == [tool |-> "none"]

Reply(code, t) ==
  [ok |-> code = "success", code |-> code, text |-> t, missing |-> {}]

NoReply == Reply("none", <<>>)

(* overrides that also count the distinct field *)
HasOverridesWithDistinctField(options) ==
  \/ IsSome(options.limit) \/ IsSome(options.sort) \/ IsSome(options.projection)
  \/ IsSome(options.distinct_field)

(* has_overrides *)
HasOverrides(options) ==
  IsSome(options.limit) \/ IsSome(options.sort) \/ IsSome(options.projection)

(* a warning for overrides on any operation, Find included *)
NeedsWarningAnyOperation(op, options) == HasOverrides(options)

(* has_overrides && !is_find *)
NeedsWarning(op, options) ==
  LET is_find == op = "Find"
  IN HasOverrides(options) /\ ~is_find

(* the body shared by query_mongodb and run_saved_query once the operation *)
(* is known: warning, options, execute_query, output                       *)
Execute(connection_name, collection, op, query, options, outcome) ==
  LET Output(run, warning) ==
        [reply |->
           IF ~run.result.ok
             THEN Reply("internal_error", format_error(run.result.chain))
           ELSE IF IsSome(warning)
             THEN Reply("success",
                        <<Unwrap(warning), NEWLINE, NEWLINE>> \o run.result.text)
           ELSE Reply("success", run.result.text),
         sent |-> run.sent, written |-> run.written, client |-> run.client,
         expired |-> run.expired]
  IN Output(IF Registry[connection_name] = "kubernetes"
            THEN [client |-> client]
                 @@ K8sExecuteQuery(collection, op, query, options, outcome)
            ELSE DirectExecuteQuery(op, query, options, QueryTimeoutSecs, outcome),
            IF NeedsWarning(op, options) THEN Some(WARNING) ELSE None)

OutcomesOf(connection_name) ==
  IF connection_name \notin ConnectionNames THEN {"none"}
  ELSE IF Registry[connection_name] = "kubernetes" THEN K8sOutcomes
  ELSE IF client = "uninit" THEN DirectOutcomes
  ELSE DirectOutcomes \ {"client_error"}

(* serde's reading of the operation parameter into QueryOperationType:     *)
(* the camelCase variant names, matched exactly                             *)
DeserializeOperation(text) ==
  IF \E op \in QueryOperations : as_str(op) = text
  THEN [ok |-> TRUE, op |-> CHOOSE op \in QueryOperations : as_str(op) = text]
  ELSE [ok |-> FALSE, op |-> "unknown variant"]

(* what query_mongodb makes of the operation parameter: [ok, op] *)
OperationOf(r) ==
  LET Parsed(operation) ==
        IF operation.ok THEN from_str(as_str(operation.op)) ELSE operation
  IN Parsed(DeserializeOperation(r.operation))

(* McpServer::query_mongodb handling request r; outcome is what the backend *)
(* does with it                                                             *)
query_mongodb(connection_name, r, outcome) ==
  LET Reject(t) ==
        /\ reply' = Reply("invalid_params", t)
        /\ sent' = None
        /\ expired' = FALSE
        /\ UNCHANGED <<database, client>>
      Handle(operation, parsed) ==
        /\ call' = [tool |-> "query_mongodb", connection_name |-> connection_name,
                    stage |-> IF connection_name \in ConnectionNames /\ parsed.ok
                              THEN "executed" ELSE "rejected",
                    op |-> parsed.op] @@ r
        /\ IF ~operation.ok THEN Reject(<<"unknown variant">>)
           ELSE IF connection_name \notin ConnectionNames
             THEN Reject(<<"Connection not found">>)
           ELSE IF ~parsed.ok THEN Reject(<<"Invalid operation">>)
           ELSE \E e \in {Execute(connection_name, r.collection_name, parsed.op,
                                   r.query, OptionsOf(r), outcome)} :
                  /\ reply' = e.reply
                  /\ sent' = e.sent
                  /\ client' = e.client
                  /\ expired' = e.expired
                  /\ database' =
                       [database EXCEPT ![connection_name] = @ \cup e.written]
  IN /\ UNCHANGED <<store, clock>>
     /\ Handle(DeserializeOperation(r.operation), OperationOf(r))

(***************************************************************************)
(* Concurrent callers of one direct connection.  Each task calls           *)
(* list_collections or execute_query, both of which begin with get_client. *)
(***************************************************************************)
(* ConnectionRegistry::new *)
NoConnections == <<>>

(* between two cluster-backed execute_query calls: calls counts the calls   *)
(* made, previous is the credentials the last one resolved, if it did      *)
NoClusterCall(calls, previous) ==
  [pc |-> "idle", calls |-> calls, query |-> <<>>, pod |-> None,
   paths |-> None, files |-> None, credentials |-> None, mongosh |-> None,
   result |-> None, previous |-> previous]

(* no exec_command_in_pod call yet *)
NotExecuting ==
  [pc |-> "idle", timeout_secs |-> 0, elapsed |-> 0, stdout |-> None,
   stderr |-> None, result |-> None]

(* concurrent calls of save_query and delete_saved_query *)
Writers == 1..MaxWriters

NotWriting == [pc |-> "idle"]

Tasks == 1..MaxTasks

NotCalling(n) ==
  [pc |-> "idle", calls |-> n, method |-> "none", entered |-> 0, ran |-> 0,
   result |-> "none", observed |-> 0]

Init ==
  /\ database = InitialDatabase
  /\ client = "uninit"
  /\ store = [c \in ConnectionNames |-> StoredQueries]
  /\ clock = 0
  /\ call = Idle
  /\ sent = None
  /\ reply = NoReply
  /\ expired = FALSE
  /\ semaphore = "free"
  /\ tasks = [t \in Tasks |-> NotCalling(0)]
  /\ attempts = <<>>
  /\ raw_output = None
  /\ parse_result = None
  /\ finding = None
  /\ substitution = None
  /\ config = None
  /\ registry = NoConnections
  /\ startup = [pc |-> "start", next |-> 0]
  /\ lookup = None
  /\ writers = [w \in Writers |-> NotWriting]
  /\ written = <<>>
  /\ pod_list = None
  /\ healthy_pod = None
  /\ exec = NotExecuting
  /\ env_request = None
  /\ env_result = None
  /\ cluster = NoClusterCall(0, None)
  /\ trips = <<>>

(* run_saved_query called without variables: a template that has          *)
(* placeholders is refused: [ok, text, missing]                             *)
WithoutVariables(saved_query) ==
  LET Required(placeholders) ==
        IF placeholders # {}
        THEN [ok |-> FALSE, text |-> <<>>, missing |-> placeholders]
        ELSE [ok |-> TRUE, text |-> saved_query.query, missing |-> {}]
  IN Required(find_placeholders(saved_query.query))

(* the locals of run_saved_query when it reaches execute_query: the saved   *)
(* collection, the parsed operation and the substituted query               *)
Resolved(saved_query, substituted, operation) ==
  IF IsSome(saved_query) /\ substituted.ok /\ operation.ok
  THEN [stage |-> "executed", collection_name |-> Unwrap(saved_query).collection,
        op |-> operation.op, query |-> substituted.text]
  ELSE [stage |-> "rejected"]

(* McpServer::run_saved_query; order is the iteration order of the          *)
(* variables map                                                            *)
run_saved_query(connection_name, query_name, variables, limit, sort, projection, order, outcome) ==
  LET options == [limit |-> limit, sort |-> sort, projection |-> projection,
                  distinct_field |-> None]
      Reject(code, t, missing) ==
        /\ reply' = [Reply(code, t) EXCEPT !.missing = missing]
        /\ sent' = None
        /\ expired' = FALSE
        /\ UNCHANGED <<database, client>>
      Run(saved_query, substituted, operation) ==
        /\ call' = [tool |-> "run_saved_query", connection_name |-> connection_name,
                    query_name |-> query_name, variables |-> variables]
                   @@ options @@ Resolved(saved_query, substituted, operation)
        /\ IF connection_name \notin ConnectionNames
             THEN Reject("invalid_params", <<"Connection not found">>, {})
           ELSE IF ~IsSome(saved_query)
             THEN Reject("invalid_params", <<"Query not found">>, {})
           ELSE IF ~substituted.ok
             THEN Reject("invalid_params",
                         IF IsSome(variables)
                         THEN <<"Missing required variables for query">>
                         ELSE <<"Query requires variables">>,
                         substituted.missing)
           ELSE IF ~operation.ok
             THEN Reject("internal_error", <<"Invalid operation">>, {})
           ELSE \E e \in {Execute(connection_name, Unwrap(saved_query).collection,
                                   operation.op, substituted.text, options,
                                   outcome)} :
                  /\ reply' = e.reply
                  /\ sent' = e.sent
                  /\ client' = e.client
                  /\ expired' = e.expired
                  /\ database' =
                       [database EXCEPT ![connection_name] = @ \cup e.written]
      Found(saved_query) ==
        Run(saved_query,
            IF ~IsSome(saved_query) THEN [ok |-> FALSE, text |-> <<>>, missing |-> {}]
            ELSE IF IsSome(variables)
              THEN substitute_placeholders(Unwrap(saved_query).query,
                                           Unwrap(variables), order)
            ELSE WithoutVariables(Unwrap(saved_query)),
            IF IsSome(saved_query) THEN from_str(Unwrap(saved_query).operation)
            ELSE [ok |-> FALSE, op |-> "none"])
  IN /\ UNCHANGED <<store, clock>>
     /\ Found(IF connection_name \in ConnectionNames
              THEN get_query(store[connection_name], query_name) ELSE None)

(* the reply is delivered to the caller and the handler's frame is gone *)
Return ==
  /\ call # Idle
  /\ call' = Idle
  /\ sent' = None
  /\ reply' = NoReply
  /\ expired' = FALSE
  /\ UNCHANGED <<database, client, store, clock>>
  /\ UNCHANGED exceptHandler

(* a caller invokes the query tool *)
QueryMongodb ==
  /\ call = Idle
  /\ UNCHANGED exceptHandler
  /\ \E connection_name \in CallerConnectionNames :
       \E r \in Requests, outcome \in OutcomesOf(connection_name) :
         query_mongodb(connection_name, r, outcome)

(* a caller invokes the runSavedQuery tool *)
RunSavedQuery ==
  /\ call = Idle
  /\ UNCHANGED exceptHandler
  /\ \E connection_name \in CallerConnectionNames, query_name \in QueryNames,
        variables \in VariableMaps, limit \in Limits, sort \in SortTexts,
        projection \in ProjectionTexts :
       \E order \in IterationOrders(IF IsSome(variables)
                                    THEN DOMAIN Unwrap(variables) ELSE {}),
          outcome \in OutcomesOf(connection_name) :
         run_saved_query(connection_name, query_name, variables, limit, sort,
                         projection, order, outcome)

Next ==
  \/ QueryMongodb
  \/ RunSavedQuery
  \/ Return

Spec == Init /\ [][Next]_vars

(***************************************************************************)
(* DirectConnection::get_client under concurrent callers.                  *)
(* client.get_or_try_init(closure): a task that finds the cell empty       *)
(* waits for the cell's single permit, runs the closure while holding it,  *)
(* and on success stores the value and closes the semaphore; when the      *)
(* closure fails the permit is dropped and the cell stays empty.           *)
(***************************************************************************)
initialized == client = "ready"

Finished(runs) == {i \in 1..Len(runs) : runs[i] # "running"}
Succeeded(runs) == {i \in 1..Len(runs) : runs[i] = "ok"}

(* the run whose client the cell holds *)
Stored(runs) == CHOOSE i \in Succeeded(runs) : \A j \in Succeeded(runs) : j <= i

(* get_client returns to list_collections or execute_query *)
Returned(task, res, run) ==
  [task EXCEPT !.pc = "returned", !.result = res, !.observed = run]

(* a task calls list_collections or execute_query *)
CallDirect(t) ==
  /\ tasks[t].pc = "idle"
  /\ tasks[t].calls < MaxCalls
  /\ \E method \in {"list_collections", "execute_query"} :
       tasks' = [tasks EXCEPT ![t] =
                   [NotCalling(@.calls + 1) EXCEPT
                      !.pc = "get_client", !.method = method,
                      !.entered = Cardinality(Finished(attempts))]]
  /\ UNCHANGED <<handlerVars, semaphore, attempts, exceptCell>>

(* if self.initialized() { Ok(value) } else { semaphore.acquire().await .. } *)
CheckInitialized(t) ==
  /\ tasks[t].pc = "get_client"
  /\ tasks' = [tasks EXCEPT ![t] =
                 IF initialized THEN Returned(@, "client", Stored(attempts))
                 ELSE [@ EXCEPT !.pc = "acquire"]]
  /\ UNCHANGED <<handlerVars, semaphore, attempts, exceptCell>>

(* a permit is handed out whether or not another task holds it *)
PermitAvailableWhileHeld == semaphore # "closed"

(* Semaphore::acquire grants the cell's only permit *)
PermitAvailable == semaphore = "free"

(* acquire() resolves: Err because the semaphore was closed by a           *)
(* successful initialisation, or Ok(permit) and the closure starts         *)
Acquire(t) ==
  /\ tasks[t].pc = "acquire"
  /\ \/ /\ semaphore = "closed"
        /\ tasks' = [tasks EXCEPT ![t] = Returned(@, "client", Stored(attempts))]
        /\ UNCHANGED <<semaphore, attempts>>
     \/ /\ PermitAvailable
        /\ semaphore' = "held"
        /\ attempts' = Append(attempts, "running")
        /\ tasks' = [tasks EXCEPT ![t].pc = "init", ![t].ran = Len(attempts) + 1]
  /\ UNCHANGED <<handlerVars, exceptCell>>

(* the closure returns Ok(client), or Err when ClientOptions::parse or     *)
(* Client::with_options fails                                              *)
ClosureOutcomes == {"ok", "error"}

(* the closure finishes: Ok(value) => set_value(value, permit), Err(e) =>   *)
(* Err(e) with the permit dropped                                           *)
InitFinish(t) ==
  /\ tasks[t].pc = "init"
  /\ \E outcome \in ClosureOutcomes :
       /\ attempts' = [attempts EXCEPT ![tasks[t].ran] = outcome]
       /\ IF outcome = "ok"
          THEN /\ client' = "ready"
               /\ semaphore' = "closed"
               /\ tasks' = [tasks EXCEPT ![t] = Returned(@, "client", @.ran)]
          ELSE /\ client' = client
               /\ semaphore' = "free"
               /\ tasks' = [tasks EXCEPT ![t] = Returned(@, "error", @.ran)]
  /\ UNCHANGED <<database, store, clock, call, sent, reply, expired, exceptCell>>

(* list_collections or execute_query returns to its caller *)
ReturnDirect(t) ==
  /\ tasks[t].pc = "returned"
  /\ tasks' = [tasks EXCEPT ![t] = NotCalling(@.calls)]
  /\ UNCHANGED <<handlerVars, semaphore, attempts, exceptCell>>

ClientNext ==
  \E t \in Tasks :
    \/ CallDirect(t)
    \/ CheckInitialized(t)
    \/ Acquire(t)
    \/ InitFinish(t)
    \/ ReturnDirect(t)

ClientSpec == Init /\ [][ClientNext]_vars

(***************************************************************************)
(* The output classifier applied to what a remote mongosh can print: an    *)
(* error report naming MongoServerError or MongoError, a JSON value, a     *)
(* number, or anything else, bare, quoted, in an array or padded.          *)
(***************************************************************************)
TextPieces ==
  {MONGO_SERVER_ERROR, MONGO_ERROR, NS_NOT_FOUND, DOESNT_EXIST, AUTH_FAILED,
   TIMED_OUT, TIMEOUT, SYNTAX_ERROR, INVALID,
   <<"1">>, <<".">>, <<"{", "}">>, <<"t", "r", "u", "e">>}

RECURSIVE Concat(_)
Concat(pieces) ==
  IF pieces = <<>> THEN <<>> ELSE Head(pieces) \o Concat(Tail(pieces))

Wrappers ==
  {<<<<>>, <<>>>>, <<<<QUOTE>>, <<QUOTE>>>>, <<<<"[", QUOTE>>, <<QUOTE, "]">>>>,
   <<<<" ">>, <<NEWLINE>>>>}

RemoteTexts ==
  {w[1] \o Concat(pieces) \o w[2] :
     w \in Wrappers, pieces \in UNION {[1..n -> TextPieces] : n \in 0..MaxPieces}}

(* execute_mongosh_query hands the output of the remote command to         *)
(* parse_mongosh_output                                                    *)
ParseMongoshOutput ==
  /\ raw_output = None
  /\ \E output \in RemoteTexts :
       /\ raw_output' = Some(output)
       /\ parse_result' = Some(parse_mongosh_output(output))
  /\ UNCHANGED exceptParse

ParseNext == ParseMongoshOutput

ParseSpec == Init /\ [][ParseNext]_vars

(***************************************************************************)
(* The template engine applied to templates built from braces, names and   *)
(* whole placeholders, with mappings whose values may hold placeholders.   *)
(***************************************************************************)
A_NAME == <<"a">>
B_NAME == <<"b">>
Placeholder(name) == <<"{", "{">> \o name \o <<"}", "}">>

TemplatePieces ==
  {<<"{", "{">>, <<"}", "}">>, <<"{">>, <<"}">>, A_NAME, B_NAME, Placeholder(A_NAME)}

Templates ==
  {Concat(pieces) :
     pieces \in UNION {[1..n -> TemplatePieces] : n \in 0..MaxTemplatePieces}}

VariableValues == {<<"1">>, Placeholder(B_NAME)}

Mappings == UNION {[keys -> VariableValues] : keys \in SUBSET {A_NAME, B_NAME}}

(* run_saved_query asks for the placeholders of a saved template *)
FindPlaceholders ==
  /\ finding = None
  /\ substitution = None
  /\ \E query \in Templates :
       finding' = Some([query |-> query, placeholders |-> find_placeholders(query)])
  /\ UNCHANGED <<substitution, exceptTemplate>>

(* run_saved_query substitutes the caller's variables into a saved template *)
SubstitutePlaceholders ==
  /\ finding = None
  /\ substitution = None
  /\ \E query \in Templates, variables \in Mappings :
       \E order \in IterationOrders(DOMAIN variables) :
         substitution' =
           Some([query |-> query, variables |-> variables, order |-> order,
                 result |-> substitute_placeholders(query, variables, order)])
  /\ UNCHANGED <<finding, exceptTemplate>>

TemplateNext ==
  \/ FindPlaceholders
  \/ SubstitutePlaceholders

TemplateSpec == Init /\ [][TemplateNext]_vars

(***************************************************************************)
(* The saved-query store of a connection under save_query and              *)
(* delete_saved_query, from the state in which no store file exists yet.   *)
(* Utc::now() is read as a clock that does not run backwards.              *)
(***************************************************************************)
StoreInit ==
  /\ database = InitialDatabase
  /\ client = "uninit"
  /\ store = [c \in ConnectionNames |-> <<>>]
  /\ clock = 0
  /\ call = Idle
  /\ sent = None
  /\ reply = NoReply
  /\ expired = FALSE
  /\ semaphore = "free"
  /\ tasks = [t \in Tasks |-> NotCalling(0)]
  /\ attempts = <<>>
  /\ raw_output = None
  /\ parse_result = None
  /\ finding = None
  /\ substitution = None
  /\ config = None
  /\ registry = NoConnections
  /\ startup = [pc |-> "start", next |-> 0]
  /\ lookup = None
  /\ writers = [w \in Writers |-> NotWriting]
  /\ written = <<>>
  /\ pod_list = None
  /\ healthy_pod = None
  /\ exec = NotExecuting
  /\ env_request = None
  /\ env_result = None
  /\ cluster = NoClusterCall(0, None)
  /\ trips = <<>>

(* what a caller asks to save: two names, two bodies that differ in every   *)
(* field, on the direct connection or on one that is not configured         *)
StoreConnectionNames == {"direct", "ghost"}
SaveNames == {"q1", "q2"}
ORDERS == <<"o", "r", "d", "e", "r", "s">>
SaveBodies ==
  {[description |-> "all documents", collection_name |-> USERS,
    operation |-> "Find", query |-> Q_EMPTY],
   [description |-> "number of documents by a", collection_name |-> ORDERS,
    operation |-> "CountDocuments", query |-> T_BY_A]}

(* how the store file behaves during one call *)
DiskOutcomes == {"ok", "load_failed", "save_failed"}

(* the anyhow errors of SavedQueries::load and save: the context, then the  *)
(* io::Error underneath                                                     *)
IO_ERROR == <<"Permission denied (os error 13)">>
LoadFailed == <<<<"Failed to read saved queries file">>, IO_ERROR>>
SaveFailed == <<<<"Failed to write saved queries file">>, IO_ERROR>>

(* anyhow::Error::to_string: the outermost message *)
to_string(e) == e[1]

(* the error a store handler's map_err receives, None if it gets none;      *)
(* writes: whether the handler gets as far as save                          *)
DiskError(connection_name, disk, writes) ==
  IF connection_name \notin ConnectionNames THEN None
  ELSE IF disk = "load_failed" THEN Some(LoadFailed)
  ELSE IF disk = "save_failed" /\ writes THEN Some(SaveFailed)
  ELSE None

(* the handler's error return: nothing is written *)
StoreError(code, t) ==
  /\ reply' = Reply(code, t)
  /\ UNCHANGED store

(* McpServer::save_query *)
save_query(connection_name, query_name, body, now, disk) ==
  LET Upserted(saved_queries) ==
        upsert_query(saved_queries, query_name, body.description,
                     body.collection_name, as_str(body.operation), body.query,
                     now)
      Saved(is_update) ==
        /\ store' = [store EXCEPT ![connection_name] = Upserted(@)]
        /\ reply' = Reply("success",
                          <<"Query '", query_name, "' ",
                            IF is_update THEN "updated" ELSE "saved",
                            " successfully in connection '", connection_name,
                            "'">>)
  IN /\ call' = [tool |-> "save_query", connection_name |-> connection_name,
                 query_name |-> query_name,
                 error |-> DiskError(connection_name, disk, TRUE)] @@ body
     /\ sent' = None
     /\ expired' = FALSE
     /\ UNCHANGED <<database, client>>
     /\ IF connection_name \notin ConnectionNames
          THEN /\ StoreError("invalid_params", <<"Connection not found">>)
               /\ UNCHANGED clock
        ELSE IF ~from_str(as_str(body.operation)).ok
          THEN /\ StoreError("invalid_params", <<"Invalid operation">>)
               /\ UNCHANGED clock
        ELSE IF disk = "load_failed"
          THEN /\ StoreError("internal_error", to_string(LoadFailed))
               /\ UNCHANGED clock
        ELSE /\ clock' = now
             /\ IF disk = "save_failed"
                  THEN StoreError("internal_error", to_string(SaveFailed))
                ELSE Saved(IsSome(get_query(store[connection_name],
                                            query_name)))

(* McpServer::delete_saved_query *)
delete_saved_query(connection_name, query_name, disk) ==
  LET Deleted(d) ==
        IF ~d.deleted
        THEN StoreError("invalid_params",
                        <<"Query '", query_name, "' not found in connection '",
                          connection_name, "'">>)
        ELSE IF disk = "save_failed"
          THEN StoreError("internal_error", to_string(SaveFailed))
        ELSE /\ store' = [store EXCEPT ![connection_name] = d.queries]
             /\ reply' = Reply("success",
                               <<"Query '", query_name,
                                 "' deleted successfully from connection '",
                                 connection_name, "'">>)
  IN /\ call' = [tool |-> "delete_saved_query",
                 connection_name |-> connection_name,
                 query_name |-> query_name,
                 error |-> DiskError(connection_name, disk,
                                     connection_name \in ConnectionNames
                                     /\ delete_query(store[connection_name],
                                                     query_name).deleted)]
     /\ sent' = None
     /\ expired' = FALSE
     /\ UNCHANGED <<database, client, clock>>
     /\ IF connection_name \notin ConnectionNames
          THEN StoreError("invalid_params", <<"Connection not found">>)
        ELSE IF disk = "load_failed"
          THEN StoreError("internal_error", to_string(LoadFailed))
        ELSE Deleted(delete_query(store[connection_name], query_name))

(* a caller invokes the saveQuery tool while the clock reads now *)
SaveQuery ==
  /\ call = Idle
  /\ UNCHANGED exceptHandler
  /\ \E connection_name \in StoreConnectionNames, query_name \in SaveNames,
        body \in SaveBodies, now \in clock..MaxClock, disk \in DiskOutcomes :
       save_query(connection_name, query_name, body, now, disk)

(* a caller invokes the deleteSavedQuery tool *)
DeleteSavedQuery ==
  /\ call = Idle
  /\ UNCHANGED exceptHandler
  /\ \E connection_name \in StoreConnectionNames, query_name \in SaveNames,
        disk \in DiskOutcomes :
       delete_saved_query(connection_name, query_name, disk)

StoreNext ==
  \/ SaveQuery
  \/ DeleteSavedQuery
  \/ Return

StoreSpec == StoreInit /\ [][StoreNext]_vars

(***************************************************************************)
(* Concurrent save_query and delete_saved_query calls.  A call touches the *)
(* store file twice, in SavedQueries::load and in SavedQueries::save; what *)
(* it does between the two is local to its frame.  The store files are the *)
(* ones found at startup.                                                  *)
(***************************************************************************)
RaceNames == {"by_a", "q1"}

RaceBodies == {b \in SaveBodies : b.operation = "CountDocuments"}

WriterCalls ==
  [tool : {"save_query"}, connection_name : CallerConnectionNames,
   query_name : RaceNames, body : RaceBodies]
  \cup [tool : {"delete_saved_query"}, connection_name : CallerConnectionNames,
        query_name : RaceNames, body : {None}]

(* a store computed from the store as it is when the file is written *)
ModifiedFromCurrentStore(frame) ==
  IF frame.tool = "save_query"
  THEN upsert_query(store[frame.connection_name], frame.query_name,
                    frame.body.description, frame.body.collection_name,
                    as_str(frame.body.operation), frame.body.query, frame.now)
  ELSE delete_query(store[frame.connection_name], frame.query_name).queries

(* the saved_queries a call hands to save: its own load, modified *)
Modified(frame) ==
  IF frame.tool = "save_query"
  THEN upsert_query(frame.loaded, frame.query_name, frame.body.description,
                    frame.body.collection_name, as_str(frame.body.operation),
                    frame.body.query, frame.now)
  ELSE delete_query(frame.loaded, frame.query_name).queries

(* the handler from its entry to the end of SavedQueries::load *)
WriterLoad(w) ==
  /\ writers[w].pc = "idle"
  /\ \E c \in WriterCalls, disk \in {"ok", "load_failed"} :
       writers' =
         [writers EXCEPT ![w] =
            IF c.connection_name \notin ConnectionNames
              THEN [pc |-> "returned", code |-> "invalid_params",
                    text |-> <<"Connection not found">>] @@ c
            ELSE IF disk = "load_failed"
              THEN [pc |-> "returned", code |-> "internal_error",
                    text |-> to_string(LoadFailed)] @@ c
            ELSE [pc |-> "loaded", loaded |-> store[c.connection_name]] @@ c]
  /\ UNCHANGED <<database, client, store, clock, call, sent, reply, expired>>
  /\ UNCHANGED <<written, exceptRace>>

(* the rest of the handler: the change to the loaded list, then             *)
(* SavedQueries::save, which replaces the file, then the reply              *)
WriterSave(w) ==
  LET Failed(frame, code, t) ==
        /\ writers' = [writers EXCEPT ![w] =
                         [pc |-> "returned", code |-> code, text |-> t] @@ frame]
        /\ UNCHANGED <<store, written>>
      Write(frame, disk) ==
        IF frame.tool = "delete_saved_query"
           /\ ~delete_query(frame.loaded, frame.query_name).deleted
          THEN Failed(frame, "invalid_params",
                      <<"Query '", frame.query_name,
                        "' not found in connection '", frame.connection_name,
                        "'">>)
        ELSE IF disk = "save_failed"
          THEN Failed(frame, "internal_error", to_string(SaveFailed))
        ELSE /\ store' = [store EXCEPT ![frame.connection_name] =
                                         Modified(frame)]
             /\ written' = Append(written, w)
             /\ writers' = [writers EXCEPT ![w] =
                              [pc |-> "returned", code |-> "success",
                               text |-> <<"Query '", frame.query_name, "' ">>]
                              @@ frame]
  IN /\ writers[w].pc = "loaded"
     /\ \E now \in clock..MaxClock, disk \in {"ok", "save_failed"} :
          /\ clock' = IF writers[w].tool = "save_query" THEN now ELSE clock
          /\ Write([now |-> IF writers[w].tool = "save_query" THEN now
                           ELSE clock] @@ writers[w], disk)
     /\ UNCHANGED <<database, client, call, sent, reply, expired, exceptRace>>

RaceNext ==
  \/ \E w \in Writers : WriterLoad(w)
  \/ \E w \in Writers : WriterSave(w)

RaceSpec == Init /\ [][RaceNext]_vars

(***************************************************************************)
(* K8sClient::find_healthy_pod over the pod list the cluster returns.  A   *)
(* pod is [name, status]: metadata.name, and status with its phase and     *)
(* container_statuses (the ready flag of each), every one an Option.       *)
(***************************************************************************)
NAMESPACE == "staging"
DEPLOYMENT == "mongodb"

Phases == {None, Some("Running"), Some("Pending")}
ContainerStatuses ==
  {None, Some(<<>>), Some(<<TRUE>>), Some(<<TRUE, FALSE>>)}
Statuses ==
  {None} \cup {Some(st) : st \in [phase : Phases,
                                  container_statuses : ContainerStatuses]}

(* the pod lists of up to MaxPods pods; a pod that has a name is named      *)
(* after its place in the list                                              *)
PodLists ==
  UNION {[1..k -> [named : BOOLEAN, status : Statuses]] : k \in 0..MaxPods}

PodOf(shapes, i) ==
  [name |-> IF shapes[i].named THEN Some(i) ELSE None,
   status |-> shapes[i].status]

(* Iterator::all(|cs| cs.ready) *)
AllReady(container_statuses) ==
  \A i \in 1..Len(container_statuses) : container_statuses[i]

(* the body of the loop for one pod: "return" with the result, or "next" *)
InspectPod(pod) ==
  LET Containers(status) ==
        IF IsSome(status.container_statuses)
           /\ AllReady(Unwrap(status.container_statuses))
        THEN [go |-> "return", result |-> Ok(Unwrap(pod.name))]
        ELSE [go |-> "next"]
      Status(status) ==
        IF IsSome(status.phase) /\ Unwrap(status.phase) # "Running"
        THEN [go |-> "next"]
        ELSE Containers(status)
  IN IF ~IsSome(pod.name)
       THEN [go |-> "return", result |-> Err(<<<<"Pod has no name">>>>)]
     ELSE IF IsSome(pod.status) THEN Status(Unwrap(pod.status))
     ELSE [go |-> "next"]

(* the loop from pod i on, and the bail! after it *)
RECURSIVE FindFrom(_, _, _, _)
FindFrom(pods, i, namespace, deployment_name) ==
  IF i > Len(pods)
  THEN Err(<<<<"No healthy pods found for deployment '", deployment_name,
               "' in namespace '", namespace, "'">>>>)
  ELSE IF InspectPod(pods[i]).go = "return" THEN InspectPod(pods[i]).result
  ELSE FindFrom(pods, i + 1, namespace, deployment_name)

(* K8sClient::find_healthy_pod; listed is the outcome of pods.list *)
find_healthy_pod(listed, namespace, deployment_name) ==
  IF ~listed.ok
  THEN Err(<<<<"Failed to list pods">>, <<"api error">>>>)
  ELSE FindFrom(listed.items, 1, namespace, deployment_name)

FindHealthyPod ==
  /\ pod_list = None
  /\ \E shapes \in PodLists, ok \in BOOLEAN :
       \E listed \in {[ok |-> ok,
                       items |-> [i \in 1..Len(shapes) |-> PodOf(shapes, i)]]} :
         /\ pod_list' = Some(listed)
         /\ healthy_pod' = Some(find_healthy_pod(listed, NAMESPACE, DEPLOYMENT))
  /\ UNCHANGED exceptPod

PodNext == FindHealthyPod

PodSpec == Init /\ [][PodNext]_vars

(***************************************************************************)
(* K8sClient::exec_command_in_pod and get_output.  Time is counted in      *)
(* seconds waited since the call.  The remote process decides when, if     *)
(* ever, each of its two output channels closes and what was written to it *)
(* by then.                                                                *)
(***************************************************************************)
ERROR == <<"E", "r", "r", "o", "r">>
INVALID_BYTE == "\\xff"

(* what a remote process may have written to a channel when it closes *)
StdoutBytes ==
  {<<>>, <<" ", NEWLINE>>, <<"{", "}", NEWLINE>>, <<"1">>, <<INVALID_BYTE>>}
StderrBytes ==
  {<<>>, <<NEWLINE>>, <<"w", "a", "r", "n">>, ERROR \o <<":", " ", "x">>,
   <<QUOTE>> \o ERROR \o <<QUOTE>>}

(* String::from_utf8 *)
FromUtf8(bytes) == \A i \in 1..Len(bytes) : bytes[i] # INVALID_BYTE

(* the choice between the two outputs made on emptiness, not blankness *)
ReconcileOnEmptiness(stdout_str, stderr_str) ==
  IF stdout_str = <<>> /\ stderr_str # <<>> THEN stderr_str
  ELSE IF stderr_str # <<>> /\ Contains(stderr_str, ERROR)
    THEN stdout_str \o <<NEWLINE>> \o stderr_str
  ELSE stdout_str

(* get_output from the two strings on: which of them is the result *)
Reconcile(stdout_str, stderr_str) ==
  IF Trim(stdout_str) = <<>> /\ Trim(stderr_str) # <<>> THEN stderr_str
  ELSE IF Trim(stderr_str) # <<>> /\ Contains(stderr_str, ERROR)
    THEN stdout_str \o <<NEWLINE>> \o stderr_str
  ELSE stdout_str

(* get_output once both read tasks have ended: stdout_result and            *)
(* stderr_result are [ok, bytes]                                            *)
get_output(stdout_result, stderr_result) ==
  IF ~stdout_result.ok
    THEN Err(<<<<"Failed to read stdout">>, <<"io error">>>>)
  ELSE IF ~stderr_result.ok
    THEN Err(<<<<"Failed to read stderr">>, <<"io error">>>>)
  ELSE IF ~FromUtf8(stdout_result.bytes)
    THEN Err(<<<<"stdout is not valid UTF-8">>, <<"invalid utf-8 sequence">>>>)
  ELSE IF ~FromUtf8(stderr_result.bytes)
    THEN Err(<<<<"stderr is not valid UTF-8">>, <<"invalid utf-8 sequence">>>>)
  ELSE Ok(Reconcile(stdout_result.bytes, stderr_result.bytes))

(* a caller invokes exec_command_in_pod with a timeout *)
ExecCommandInPod ==
  /\ exec.pc = "idle"
  /\ \E timeout_secs \in 1..MaxTimeout :
       exec' = [NotExecuting EXCEPT !.pc = "attaching",
                                    !.timeout_secs = timeout_secs]
  /\ UNCHANGED exceptExec

(* a second passes while the call waits; tokio's timeout lets the attach    *)
(* wait no longer than timeout_secs                                         *)
Wait ==
  /\ \/ exec.pc = "attaching" /\ exec.elapsed < exec.timeout_secs
     \/ exec.pc = "reading" /\ exec.elapsed <= exec.timeout_secs
  /\ exec' = [exec EXCEPT !.elapsed = @ + 1]
  /\ UNCHANGED exceptExec

(* pods.exec(..) completes within the timeout, attached or with an error *)
Attach ==
  /\ exec.pc = "attaching"
  /\ \/ exec' = [exec EXCEPT !.pc = "reading"]
     \/ exec' = [exec EXCEPT
                   !.pc = "returned",
                   !.result = Some(Err(<<<<"Failed to execute command in pod">>,
                                         <<"api error">>>>))]
  /\ UNCHANGED exceptExec

(* the timeout elapses before pods.exec(..) completes *)
AttachTimesOut ==
  /\ exec.pc = "attaching"
  /\ exec.elapsed = exec.timeout_secs
  /\ exec' = [exec EXCEPT
                !.pc = "returned",
                !.result = Some(Err(<<<<"Command execution ", "timed out">>,
                                      <<"deadline has elapsed">>>>))]
  /\ UNCHANGED exceptExec

(* the read task of stdout ends: read_to_end meets the end of the channel   *)
(* or an io error                                                           *)
StdoutEnds ==
  /\ exec.pc = "reading"
  /\ exec.stdout = None
  /\ \E ok \in BOOLEAN, bytes \in StdoutBytes :
       exec' = [exec EXCEPT !.stdout = Some([ok |-> ok, bytes |-> bytes])]
  /\ UNCHANGED exceptExec

(* the read task of stderr ends *)
StderrEnds ==
  /\ exec.pc = "reading"
  /\ exec.stderr = None
  /\ \E ok \in BOOLEAN, bytes \in StderrBytes :
       exec' = [exec EXCEPT !.stderr = Some([ok |-> ok, bytes |-> bytes])]
  /\ UNCHANGED exceptExec

(* tokio::join! has both results: get_output and exec_command_in_pod return *)
Joined ==
  /\ exec.pc = "reading"
  /\ IsSome(exec.stdout)
  /\ IsSome(exec.stderr)
  /\ exec' = [exec EXCEPT
                !.pc = "returned",
                !.result = Some(get_output(Unwrap(exec.stdout),
                                           Unwrap(exec.stderr)))]
  /\ UNCHANGED exceptExec

ExecNext ==
  \/ ExecCommandInPod
  \/ Wait
  \/ Attach
  \/ AttachTimesOut
  \/ StdoutEnds
  \/ StderrEnds
  \/ Joined

ExecSpec == Init /\ [][ExecNext]_vars

(***************************************************************************)
(* K8sClient::get_pod_env_vars over the pod the cluster returns.  A pod    *)
(* spec is the list of its containers, a container is its env, an Option   *)
(* of a list of entries [name, value], value an Option.                    *)
(***************************************************************************)
USERNAME_FILE == "MONGO_INITDB_ROOT_USERNAME_FILE"
PASSWORD_FILE == "MONGO_INITDB_ROOT_PASSWORD_FILE"

EnvVar(name, value) == [name |-> name, value |-> value]

(* the env sections a container may have: none, literal values, entries     *)
(* without a literal value (valueFrom), names given twice                   *)
Envs ==
  {None, Some(<<>>),
   Some(<<EnvVar(USERNAME_FILE, Some("/run/u1"))>>),
   Some(<<EnvVar(USERNAME_FILE, Some("/run/u2")),
          EnvVar(PASSWORD_FILE, Some("/run/p2"))>>),
   Some(<<EnvVar(PASSWORD_FILE, Some("/run/p1")),
          EnvVar(USERNAME_FILE, Some("/run/u1"))>>),
   Some(<<EnvVar(USERNAME_FILE, None)>>),
   Some(<<EnvVar(USERNAME_FILE, None),
          EnvVar(USERNAME_FILE, Some("/run/u2"))>>),
   Some(<<EnvVar(PASSWORD_FILE, Some("/run/p1")),
          EnvVar(PASSWORD_FILE, Some("/run/p2"))>>),
   Some(<<EnvVar("PATH", Some("/bin")),
          EnvVar(PASSWORD_FILE, None)>>)}

PodSpecs ==
  {None} \cup {Some(containers) :
                 containers \in UNION {[1..k -> Envs] : k \in 0..MaxContainers}}

RequestedNames ==
  {<<>>, <<USERNAME_FILE>>, <<USERNAME_FILE, PASSWORD_FILE>>,
   <<PASSWORD_FILE, USERNAME_FILE>>}

(* an entry that overwrites what an earlier one gave *)
InnerLoopOverwriting(env_var, env_var_names, results) ==
  [i \in 1..Len(env_var_names) |->
     IF env_var.name = env_var_names[i] THEN env_var.value ELSE results[i]]

(* the innermost loop, over the requested names, for one entry *)
InnerLoop(env_var, env_var_names, results) ==
  [i \in 1..Len(env_var_names) |->
     IF env_var.name = env_var_names[i] /\ results[i] = None
     THEN env_var.value
     ELSE results[i]]

(* the loop over the entries of one container, from entry k on *)
RECURSIVE EnvLoop(_, _, _, _)
EnvLoop(env_vars, k, env_var_names, results) ==
  IF k > Len(env_vars) THEN results
  ELSE EnvLoop(env_vars, k + 1, env_var_names,
               InnerLoop(env_vars[k], env_var_names, results))

(* the loop over the containers, from container c on *)
RECURSIVE ContainerLoop(_, _, _, _)
ContainerLoop(containers, c, env_var_names, results) ==
  IF c > Len(containers) THEN results
  ELSE ContainerLoop(containers, c + 1, env_var_names,
                     IF IsSome(containers[c])
                     THEN EnvLoop(Unwrap(containers[c]), 1, env_var_names,
                                  results)
                     ELSE results)

(* K8sClient::get_pod_env_vars; got is the outcome of pods.get: [ok, spec] *)
get_pod_env_vars(got, env_var_names) ==
  IF ~got.ok THEN [ok |-> FALSE, values |-> <<>>,
                   chain |-> <<<<"Failed to get pod">>, <<"api error">>>>]
  ELSE [ok |-> TRUE, chain |-> <<>>,
        values |-> IF IsSome(got.spec)
                   THEN ContainerLoop(Unwrap(got.spec), 1, env_var_names,
                                      [i \in 1..Len(env_var_names) |-> None])
                   ELSE [i \in 1..Len(env_var_names) |-> None]]

GetPodEnvVars ==
  /\ env_request = None
  /\ \E env_var_names \in RequestedNames, spec \in PodSpecs, ok \in BOOLEAN :
       /\ ok \/ spec = None
       /\ env_request' = Some([names |-> env_var_names, ok |-> ok,
                               spec |-> spec])
       /\ env_result' = Some(get_pod_env_vars([ok |-> ok, spec |-> spec],
                                              env_var_names))
  /\ UNCHANGED exceptEnv

EnvNext == GetPodEnvVars

EnvSpec == Init /\ [][EnvNext]_vars

(***************************************************************************)
(* K8sConnection::execute_query step by step: find_healthy_pod,            *)
(* get_mongodb_credentials (the pod's env, then the two credential files   *)
(* read with cat), execute_mongosh_query.  Every request to the cluster is *)
(* appended to trips.                                                      *)
(***************************************************************************)
(* what the remote end of an exec did: how the attach went and, if it went  *)
(* well, what the process had written to each channel when it closed them   *)
RemoteRun(attach, stdout, stderr) ==
  [attach |-> attach, stdout |-> [ok |-> TRUE, bytes |-> stdout],
   stderr |-> [ok |-> TRUE, bytes |-> stderr]]

(* K8sClient::exec_command_in_pod for a remote process that ends *)
exec_command_in_pod(run) ==
  IF run.attach = "timeout"
    THEN Err(<<<<"Command execution ", "timed out">>,
               <<"deadline has elapsed">>>>)
  ELSE IF run.attach = "error"
    THEN Err(<<<<"Failed to execute command in pod">>, <<"api error">>>>)
  ELSE get_output(run.stdout, run.stderr)

(* anyhow's Context::context on a Result *)
context(result, msg) ==
  IF result.ok THEN result ELSE Err(<<msg>> \o result.chain)

(* K8sClient::read_file_from_pod: cat file_path in the pod *)
read_file_from_pod(file_path, run) ==
  context(exec_command_in_pod(run),
          <<"Failed to read file '", file_path, "' from pod">>)

(* the credential files of the pod: a file with its content, a file that    *)
(* cannot be read, or a pod that cannot be attached to                      *)
File(bytes) == [kind |-> "content", bytes |-> bytes]
Unreadable == [kind |-> "unreadable", bytes |-> <<>>]
NoAttach == [kind |-> "no_attach", bytes |-> <<>>]

UsernameFiles ==
  {File(<<"u", "1", NEWLINE>>), File(<<"u", "2">>), Unreadable, NoAttach}
PasswordFiles == {File(<<" ", "p", "1", NEWLINE>>), Unreadable, NoAttach}

(* what cat does with a file *)
CatRun(file_path, file) ==
  IF file.kind = "content" THEN RemoteRun("ok", file.bytes, <<>>)
  ELSE IF file.kind = "unreadable"
    THEN RemoteRun("ok", <<>>,
                   <<"cat: ", file_path, ": No such file or directory",
                     NEWLINE>>)
  ELSE RemoteRun("error", <<>>, <<>>)

(* get_mongodb_credentials from the env values on: the two paths, or the     *)
(* error for the name that is missing                                       *)
CredentialPaths(env_vars) ==
  IF ~env_vars.ok THEN Err(env_vars.chain)
  ELSE IF ~IsSome(env_vars.values[1])
    THEN Err(<<<<"MongoDB credentials not found: ", USERNAME_FILE,
                 " environment variable missing in pod">>>>)
  ELSE IF ~IsSome(env_vars.values[2])
    THEN Err(<<<<"MongoDB credentials not found: ", PASSWORD_FILE,
                 " environment variable missing in pod">>>>)
  ELSE Ok([username_file_path |-> Unwrap(env_vars.values[1]),
           password_file_path |-> Unwrap(env_vars.values[2])])

(* get_mongodb_credentials after the join of the two reads *)
MongoCredentials(username_result, password_result) ==
  IF ~username_result.ok
    THEN context(username_result, <<"Failed to read username file">>)
  ELSE IF ~password_result.ok
    THEN context(password_result, <<"Failed to read password file">>)
  ELSE Ok([username |-> Trim(username_result.text),
           password |-> Trim(password_result.text)])

(* execute_mongosh_query from the exec on *)
MongoshResult(run) ==
  LET Parse(output) ==
        IF output.ok THEN parse_mongosh_output(output.text) ELSE output
  IN Parse(context(exec_command_in_pod(run),
                   <<"Failed to execute mongosh command">>))

(* the pod lists, pods and mongosh runs the cluster may answer with *)
ClusterPodLists ==
  {[ok |-> FALSE, items |-> <<>>], [ok |-> TRUE, items |-> <<>>],
   [ok |-> TRUE,
    items |-> <<[name |-> Some("mongodb-0"),
                 status |-> Some([phase |-> Some("Running"),
                                  container_statuses |-> Some(<<TRUE>>)])]>>]}

ClusterPods ==
  {[ok |-> FALSE, spec |-> None],
   [ok |-> TRUE, spec |-> Some(<<Some(<<EnvVar(PASSWORD_FILE, Some("/run/p"))>>)>>)],
   [ok |-> TRUE, spec |-> Some(<<Some(<<EnvVar(USERNAME_FILE, Some("/run/u"))>>)>>)],
   [ok |-> TRUE,
    spec |-> Some(<<Some(<<EnvVar(USERNAME_FILE, Some("/run/u")),
                           EnvVar(PASSWORD_FILE, Some("/run/p"))>>)>>)]}

MongoshRuns ==
  {RemoteRun("timeout", <<>>, <<>>), RemoteRun("error", <<>>, <<>>)}
  \cup {RemoteRun("ok", out, err) :
          out \in {<<>>, <<"[", "]", NEWLINE>>,
                   MONGO_SERVER_ERROR \o <<":", " ">> \o NS_NOT_FOUND},
          err \in {<<>>, <<"w", "a", "r", "n">>, ERROR \o <<":", " ", "x">>,
                   <<QUOTE>> \o ERROR \o <<QUOTE>>}}

(* a step that fails is tried again *)
QuestionMarkRetrying(result, at, next) ==
  IF result.ok THEN next ELSE at

(* the ? after a step at pc at: on, or out with the error *)
QuestionMark(result, at, next) ==
  IF result.ok THEN next ELSE "returned"

Trip(kind, arg) == [kind |-> kind, arg |-> arg]

(* a caller invokes execute_query on the cluster-backed connection *)
ClusterExecuteQuery ==
  /\ cluster.pc = "idle"
  /\ cluster.calls < MaxClusterCalls
  /\ \E query \in {Q_EMPTY, Q_BAD} :
       cluster' = [cluster EXCEPT !.pc = "discovery", !.calls = @ + 1,
                                  !.query = query]
  /\ trips' = <<>>
  /\ UNCHANGED exceptCluster

(* find_healthy_pod(..).await? *)
DiscoverPod ==
  /\ cluster.pc = "discovery"
  /\ \E listed \in ClusterPodLists :
       \E found \in {find_healthy_pod(listed, NAMESPACE, DEPLOYMENT)} :
         /\ trips' = Append(trips, Trip("pods.list", DEPLOYMENT))
         /\ cluster' =
              [cluster EXCEPT
                 !.pc = QuestionMark(found, "discovery", "environment"),
                 !.pod = IF found.ok THEN Some(found.text) ELSE None,
                 !.result = IF found.ok THEN None ELSE Some(found)]
  /\ UNCHANGED exceptCluster

(* get_mongodb_credentials up to the two paths: get_pod_env_vars(..).await?  *)
(* and the two ok_or_else(..)?                                              *)
GetCredentialPaths ==
  /\ cluster.pc = "environment"
  /\ \E got \in ClusterPods :
       \E paths \in {CredentialPaths(
                       get_pod_env_vars(got, <<USERNAME_FILE, PASSWORD_FILE>>))} :
         /\ trips' = Append(trips, Trip("pods.get", Unwrap(cluster.pod)))
         /\ cluster' =
              [cluster EXCEPT
                 !.pc = QuestionMark(paths, "environment", "files"),
                 !.paths = IF paths.ok THEN Some(paths.text) ELSE None,
                 !.result = IF paths.ok THEN None ELSE Some(paths)]
  /\ UNCHANGED exceptCluster

(* the rest of get_mongodb_credentials: both files are read, joined, and     *)
(* the credentials are the trimmed outputs                                  *)
ReadCredentialFiles ==
  /\ cluster.pc = "files"
  /\ \E username_file \in UsernameFiles, password_file \in PasswordFiles :
       \E credentials \in
            {MongoCredentials(
               read_file_from_pod(Unwrap(cluster.paths).username_file_path,
                                  CatRun(Unwrap(cluster.paths).username_file_path,
                                         username_file)),
               read_file_from_pod(Unwrap(cluster.paths).password_file_path,
                                  CatRun(Unwrap(cluster.paths).password_file_path,
                                         password_file)))} :
         /\ trips' = trips
                     \o <<Trip("exec cat", Unwrap(cluster.paths).username_file_path),
                          Trip("exec cat", Unwrap(cluster.paths).password_file_path)>>
         /\ cluster' =
              [cluster EXCEPT
                 !.pc = QuestionMark(credentials, "files", "execution"),
                 !.files = Some([username |-> username_file,
                                 password |-> password_file]),
                 !.credentials = IF credentials.ok THEN Some(credentials.text)
                                 ELSE None,
                 !.result = IF credentials.ok THEN None ELSE Some(credentials)]
  /\ UNCHANGED exceptCluster

(* execute_mongosh_query: to_mongosh_code(..)?, the exec with the            *)
(* credentials in its command, parse_mongosh_output                         *)
ExecuteMongoshQuery ==
  /\ cluster.pc = "execution"
  /\ \E eval_code \in {to_mongosh_code("Find", USERS, cluster.query,
                                       DefaultOptions)} :
       IF ~eval_code.ok
       THEN /\ cluster' = [cluster EXCEPT
                             !.pc = "returned",
                             !.result = Some(Err(ErrorChain(eval_code.msg)))]
            /\ UNCHANGED trips
       ELSE \E run \in MongoshRuns :
              /\ trips' = Append(trips, Trip("exec mongosh",
                                            Unwrap(cluster.credentials)))
              /\ cluster' = [cluster EXCEPT
                               !.pc = "returned",
                               !.mongosh = Some(run),
                               !.result = Some(MongoshResult(run))]
  /\ UNCHANGED exceptCluster

(* the result goes to the caller; nothing of the call is kept *)
ClusterReturn ==
  /\ cluster.pc = "returned"
  /\ cluster' = NoClusterCall(cluster.calls,
                              IF IsSome(cluster.credentials)
                              THEN cluster.credentials ELSE cluster.previous)
  /\ UNCHANGED <<trips, exceptCluster>>

ClusterNext ==
  \/ ClusterExecuteQuery
  \/ DiscoverPod
  \/ GetCredentialPaths
  \/ ReadCredentialFiles
  \/ ExecuteMongoshQuery
  \/ ClusterReturn

ClusterSpec == Init /\ [][ClusterNext]_vars

(***************************************************************************)
(* Startup: main loads the configuration, validates the names, builds the  *)
(* registry and hands it to the server.  A configured namespace or direct  *)
(* connection is represented by its name (namespace_name, name).           *)
(***************************************************************************)
ConfigNames == {"a", "b"}

NamesUpTo(n) == UNION {[1..k -> ConfigNames] : k \in 0..n}

(* the configuration files Config::load may find *)
Configs ==
  [namespaces : NamesUpTo(MaxConfigured), connections : NamesUpTo(MaxConfigured)]

Range(names) == {names[i] : i \in 1..Len(names)}

(* a validation that looks at the namespaces only *)
ValidateNamespacesOnly(cfg) ==
  LET Repeated(names) ==
        {i \in 1..Len(names) : \E j \in 1..(i - 1) : names[j] = names[i]}
  IN IF Repeated(cfg.namespaces) # {}
     THEN [ok |-> FALSE, found |-> "in namespaces"]
     ELSE [ok |-> TRUE, found |-> ""]

(* Config::validate_unique_names: [ok, found]; the namespaces are inserted  *)
(* into the seen set first, then the direct connections                     *)
validate_unique_names(cfg) ==
  LET Repeated(names) ==
        {i \in 1..Len(names) : \E j \in 1..(i - 1) : names[j] = names[i]}
      Conflicting(names) ==
        {i \in 1..Len(names) : names[i] \in Range(cfg.namespaces)}
  IN IF Repeated(cfg.namespaces) # {}
       THEN [ok |-> FALSE, found |-> "in namespaces"]
     ELSE IF Repeated(cfg.connections) \cup Conflicting(cfg.connections) # {}
       THEN [ok |-> FALSE,
             found |-> "conflicts with namespace or another connection"]
     ELSE [ok |-> TRUE, found |-> ""]

(* ConnectionRegistry::register: HashMap::insert under the connection's     *)
(* name, replacing what was there                                           *)
register(connections, name, connection_type) ==
  (name :> connection_type) @@ connections

(* ConnectionRegistry::get *)
get(connections, name) ==
  IF name \in DOMAIN connections THEN Some(connections[name]) ELSE None

Step(pc, next) == [pc |-> pc, next |-> next]

(* main's error return before the server runs *)
Fatal ==
  /\ startup' = Step("failed", 0)
  /\ UNCHANGED <<registry, lookup>>

(* Config::load()? *)
LoadConfig ==
  /\ startup.pc = "start"
  /\ \/ \E cfg \in Configs :
          /\ config' = Some(cfg)
          /\ startup' = Step("loaded", 0)
          /\ UNCHANGED <<registry, lookup>>
     \/ /\ Fatal
        /\ UNCHANGED config
  /\ UNCHANGED exceptStartup

(* config.validate_unique_names()? and ConnectionRegistry::new() *)
ValidateUniqueNames ==
  /\ startup.pc = "loaded"
  /\ IF validate_unique_names(Unwrap(config)).ok
     THEN /\ startup' = Step("validated", 0)
          /\ registry' = NoConnections
          /\ UNCHANGED lookup
     ELSE Fatal
  /\ UNCHANGED <<config, exceptStartup>>

(* K8sClient::new(...).await?, only if namespaces are configured *)
InitK8sClient ==
  /\ startup.pc = "validated"
  /\ \/ /\ startup' = Step("namespaces", 1)
        /\ UNCHANGED <<registry, lookup>>
     \/ /\ Unwrap(config).namespaces # <<>>
        /\ Fatal
  /\ UNCHANGED <<config, exceptStartup>>

(* one turn of a registration loop over names, and where it goes when the   *)
(* list is exhausted                                                        *)
RegisterNext(pc, names, connection_type, done) ==
  /\ startup.pc = pc
  /\ IF startup.next <= Len(names)
     THEN /\ registry' = register(registry, names[startup.next], connection_type)
          /\ startup' = Step(pc, startup.next + 1)
     ELSE /\ startup' = Step(done, IF done = "serving" THEN 0 ELSE 1)
          /\ UNCHANGED registry
  /\ UNCHANGED <<config, lookup, exceptStartup>>

(* registry.register(Box::new(K8sConnection::new(..))) for each namespace *)
RegisterNamespace ==
  RegisterNext("namespaces", Unwrap(config).namespaces, "kubernetes",
               "connections")

(* registry.register(Box::new(DirectConnection::new(..))) for each direct   *)
(* connection, then McpServer::new(.., registry) and run                    *)
RegisterConnection ==
  RegisterNext("connections", Unwrap(config).connections, "direct", "serving")

(* a tool handler looks its connection up in the shared registry *)
GetConnection ==
  /\ startup.pc = "serving"
  /\ \E name \in ConfigNames \cup {"ghost"} :
       lookup' = Some(get(registry, name))
  /\ UNCHANGED <<config, registry, startup, exceptStartup>>

StartupNext ==
  \/ LoadConfig
  \/ ValidateUniqueNames
  \/ InitK8sClient
  \/ RegisterNamespace
  \/ RegisterConnection
  \/ GetConnection

StartupSpec == Init /\ [][StartupNext]_vars

(***************************************************************************)
(* Views of the call in progress used by the properties                    *)
(***************************************************************************)
(* the handler reached execute_query *)
Executed == call # Idle /\ call.stage = "executed"
OnCluster == Executed /\ Registry[call.connection_name] = "kubernetes"
OnDirect == Executed /\ Registry[call.connection_name] = "direct"

(* the QueryOptions the handler built *)
CallOptions ==
  [limit |-> call.limit, sort |-> call.sort, projection |-> call.projection,
   distinct_field |-> call.distinct_field]

(* what each renderer makes of the call in progress *)
Script == to_mongosh_code(call.op, call.collection_name, call.query, CallOptions)
DriverCall == execute_operation(call.op, call.query, CallOptions)

(* position of the first occurrence of a token in a script, 0 if none *)
IndexOf(code, token) ==
  IF \E k \in 1..Len(code) : code[k] = token
  THEN CHOOSE k \in 1..Len(code) :
         code[k] = token /\ \A j \in 1..(k - 1) : code[j] # token
  ELSE 0

(* how a JavaScript engine reads a double-quoted string literal that       *)
(* starts at position i: [closed, text, end]                               *)
RECURSIVE JsLiteralFrom(_, _, _)
JsLiteralFrom(code, i, acc) ==
  IF i > Len(code) THEN [closed |-> FALSE, text |-> acc, end |-> 0]
  ELSE IF code[i] = QUOTE THEN [closed |-> TRUE, text |-> acc, end |-> i]
  ELSE IF code[i] = BSLASH
    THEN IF i + 1 > Len(code) THEN [closed |-> FALSE, text |-> acc, end |-> 0]
         ELSE JsLiteralFrom(code, i + 2,
                Append(acc, IF code[i + 1] = "n" THEN NEWLINE ELSE code[i + 1]))
  ELSE JsLiteralFrom(code, i + 1, Append(acc, code[i]))

JsLiteral(code, i) ==
  IF At(code, i, QUOTE) THEN JsLiteralFrom(code, i + 1, <<>>)
  ELSE [closed |-> FALSE, text |-> <<>>, end |-> 0]

(* the distinct field the call names: the parameter, else the legacy text's *)
(* "field" string                                                           *)
RequestedField ==
  IF IsSome(call.distinct_field) THEN call.distinct_field
  ELSE LET parsed == FromStrValue(call.query)
       IN IF parsed.ok /\ IsSome(ValueGet(parsed.v, FIELD))
             /\ Unwrap(ValueGet(parsed.v, FIELD)).t = "string"
          THEN Some(Unwrap(ValueGet(parsed.v, FIELD)).s) ELSE None

(***************************************************************************)
(* C1: the system accepts only the four read-only operations, and          *)
(* executing an accepted request leaves the database unchanged.            *)
(* Stated as written; an accepted aggregate whose pipeline has a $out      *)
(* stage writes a collection.                                              *)
(***************************************************************************)
C1_AcceptedRequestsLeaveDatabaseUnchanged ==
  [][/\ (call' # Idle /\ call'.tool = "query_mongodb"
         /\ ToLowercase(call'.operation)
              \notin {ToLowercase(as_str(op)) : op \in QueryOperations})
        => (reply'.code = "invalid_params" /\ sent' = None)
     /\ (call' # Idle /\ call'.stage = "executed")
        => (call'.op \in QueryOperations /\ database' = database)]_vars

(***************************************************************************)
(* C2: in every script sent to the cluster backend, the collection is      *)
(* reached by bracket subscript with a string literal that a JavaScript    *)
(* engine reads back as exactly the requested collection name, and a       *)
(* distinct call's first argument is a string literal read back as exactly *)
(* the requested field name; neither literal is closed early by a quote,   *)
(* backslash, semicolon or slash in the name.                              *)
(***************************************************************************)
C2_NamesAreEscapedLiterals ==
  (OnCluster /\ IsSome(sent)) =>
    LET code == Unwrap(sent)
        db == IndexOf(code, "db[")
        collection == JsLiteral(code, db + 1)
        distinct == IndexOf(code, ".distinct(")
        field == JsLiteral(code, distinct + 1)
    IN /\ db > 0
       /\ collection.closed
       /\ collection.text = call.collection_name
       /\ At(code, collection.end + 1, "]")
       /\ call.op = "Distinct" =>
            /\ distinct = collection.end + 2
            /\ field.closed
            /\ Some(field.text) = RequestedField
            /\ At(code, field.end + 1, ",")

(* a distinct script was sent whose collection and field names both hold a  *)
(* backslash and a quote                                                    *)
C2_Witness ==
  /\ OnCluster /\ IsSome(sent)
  /\ call.op = "Distinct"
  /\ call.collection_name = <<BSLASH, QUOTE>>
  /\ call.distinct_field = Some(<<BSLASH, QUOTE>>)

(***************************************************************************)
(* C3: for every request the two renderers agree: both accept or both      *)
(* reject; when they reject they blame the same part of the request; when  *)
(* they accept they carry the same effective filter, projection, sort,     *)
(* limit and distinct field.  Stated as written; the remote-eval renderer  *)
(* takes any JSON value as a query where the driver-call renderer needs a  *)
(* document, and the two validate sort and projection in opposite order.   *)
(***************************************************************************)
(* the JSON values a script's embedded texts denote *)
EffectiveOfScript(eff) ==
  [filter |-> FromStrValue(Unwrap(eff.filter)).v,
   projection |-> IF IsSome(eff.projection)
                  THEN FromStrValue(Unwrap(eff.projection)).v ELSE EmptyObject,
   sort |-> IF IsSome(eff.sort) THEN Some(FromStrValue(Unwrap(eff.sort)).v)
            ELSE None,
   limit |-> eff.limit, field |-> eff.field]

(* the values a driver call carries; an absent projection selects all      *)
(* fields, as the empty projection does                                    *)
EffectiveOfCall(c) ==
  [filter |-> Unwrap(c.filter),
   projection |-> IF IsSome(c.projection) THEN Unwrap(c.projection)
                  ELSE EmptyObject,
   sort |-> c.sort, limit |-> c.limit, field |-> c.field]

C3_RenderersAgree ==
  Executed =>
    /\ Script.ok = DriverCall.ok
    /\ ~Script.ok => OffendingPart(Script.msg) = OffendingPart(DriverCall.msg)
    /\ Script.ok => EffectiveOfScript(Script.eff) = EffectiveOfCall(DriverCall.call)

(***************************************************************************)
(* C4 (as amended): for a Distinct call that names its field f by          *)
(* parameter and whose query text q is a JSON object, the legacy text      *)
(* {"field": f, "query": q} without the parameter compiles to the same     *)
(* distinct field and to a filter that denotes the same JSON value (the    *)
(* remote-eval renderer re-serialises the legacy filter compactly, so the  *)
(* script texts may differ in spacing); the driver-call renderer makes the *)
(* identical call; and the legacy text without a "query" key compiles, on  *)
(* both renderers, exactly as the filter {} does.                          *)
(***************************************************************************)
(* a Distinct call in the parameter shape with a JSON-object filter *)
DistinctByParameter ==
  /\ Executed
  /\ call.op = "Distinct"
  /\ IsSome(call.distinct_field)
  /\ FromStrDocument(call.query).ok

(* the same call in the legacy shape, with and without its "query" key *)
LegacyOptions == [CallOptions EXCEPT !.distinct_field = None]
LegacyShape ==
  LegacyText(Some(ToJsonString(Unwrap(call.distinct_field))), Some(call.query))
LegacyShapeNoQuery ==
  LegacyText(Some(ToJsonString(Unwrap(call.distinct_field))), None)

(* a legacy text without "query" compiles as the filter {} does *)
LegacyDefaultsToEmptyFilter ==
  /\ to_mongosh_code("Distinct", call.collection_name, LegacyShapeNoQuery,
                     LegacyOptions)
       = to_mongosh_code("Distinct", call.collection_name, EmptyObjectText,
                         CallOptions)
  /\ execute_operation("Distinct", LegacyShapeNoQuery, LegacyOptions)
       = execute_operation("Distinct", EmptyObjectText, CallOptions)

C4_DualShapeSameFieldAndFilterValue ==
  DistinctByParameter =>
    LET legacy == to_mongosh_code("Distinct", call.collection_name, LegacyShape,
                                  LegacyOptions)
    IN /\ Script.ok /\ legacy.ok
       /\ legacy.eff.field = Script.eff.field
       /\ FromStrValue(Unwrap(legacy.eff.filter)).v
            = FromStrValue(Unwrap(Script.eff.filter)).v
       /\ FromStrValue(Unwrap(legacy.eff.filter)).ok
       /\ execute_operation("Distinct", LegacyShape, LegacyOptions) = DriverCall
       /\ DriverCall.ok
       /\ LegacyDefaultsToEmptyFilter

(* a distinct script was sent for a field named by parameter, with a quote *)
(* in the name and a filter written with spaces                            *)
C4_Witness ==
  /\ DistinctByParameter
  /\ IsSome(sent)
  /\ call.distinct_field = Some(<<QUOTE, "a">>)
  /\ call.query = Q_A1

(* C4 as written: the two shapes compile to the same result on both        *)
(* renderers                                                               *)
C4_DualShapeCompilesIdentically ==
  DistinctByParameter =>
    /\ to_mongosh_code("Distinct", call.collection_name, LegacyShape,
                       LegacyOptions) = Script
    /\ execute_operation("Distinct", LegacyShape, LegacyOptions) = DriverCall
    /\ LegacyDefaultsToEmptyFilter

(***************************************************************************)
(* C5: a Distinct call without the distinct-field parameter whose query    *)
(* text is JSON with no string-valued "field" key is rejected by both      *)
(* renderers with the error naming the missing distinct_field parameter;   *)
(* the caller gets an error and nothing is sent to the database.           *)
(***************************************************************************)
DistinctWithoutField ==
  /\ Executed
  /\ call.op = "Distinct"
  /\ ~IsSome(call.distinct_field)
  /\ FromStrValue(call.query).ok
  /\ ~IsSome(RequestedField)

C5_MissingDistinctFieldIsAnError ==
  DistinctWithoutField =>
    /\ ~Script.ok /\ Script.msg = ScriptMsg.DistinctField
    /\ ~DriverCall.ok /\ DriverCall.msg = CallMsg.DistinctField
    /\ sent = None
    /\ ~reply.ok
    /\ reply.text \in {<<ScriptMsg.DistinctField>>, <<"No healthy pods found">>,
                       <<"MongoDB credentials not found">>,
                       <<"Failed to parse MongoDB connection URL", ":", " ",
                         "URL error">>}

(* the legacy text {"query": {}} was refused with the error naming the      *)
(* parameter                                                                *)
C5_Witness ==
  /\ DistinctWithoutField
  /\ call.query = Q_LEGACY_NOFIELD
  /\ reply.text = <<ScriptMsg.DistinctField>>

(***************************************************************************)
(* C6: a query text reaches the database only if it has the shape its      *)
(* operation requires: a JSON object for Find and CountDocuments, a JSON   *)
(* array of objects for Aggregate.  Stated as written; the remote-eval     *)
(* renderer checks only that the text is JSON.                             *)
(***************************************************************************)
HasRequiredShape(op, query) ==
  IF op \in {"Find", "CountDocuments"} THEN FromStrDocument(query).ok
  ELSE IF op = "Aggregate" THEN FromStrDocuments(query).ok
  ELSE TRUE

C6_OnlyWellShapedQueriesAreSent ==
  Executed =>
    /\ Script.ok => HasRequiredShape(call.op, call.query)
    /\ DriverCall.ok => HasRequiredShape(call.op, call.query)
    /\ IsSome(sent) => HasRequiredShape(call.op, call.query)
    /\ (~HasRequiredShape(call.op, call.query)) => ~reply.ok

(***************************************************************************)
(* C7: every script sent for Find, Aggregate or Distinct is one            *)
(* JSON.stringify(...) call: it opens the script, its closing parenthesis  *)
(* ends the script, and there is no second one; every script sent for      *)
(* CountDocuments is the collection's countDocuments(...) call with no     *)
(* JSON.stringify anywhere.                                                *)
(***************************************************************************)
OpeningTokens ==
  {"JSON.stringify(", ".find(", ".sort(", ".limit(", ".aggregate(",
   ".countDocuments(", ".distinct("}

(* index of the token that closes the call opened at position 1 *)
RECURSIVE ClosingIndex(_, _, _)
ClosingIndex(code, i, depth) ==
  IF i > Len(code) THEN 0
  ELSE IF code[i] \in OpeningTokens THEN ClosingIndex(code, i + 1, depth + 1)
  ELSE IF code[i] = ")"
    THEN IF depth = 1 THEN i ELSE ClosingIndex(code, i + 1, depth - 1)
  ELSE ClosingIndex(code, i + 1, depth)

Occurrences(code, token) ==
  Cardinality({k \in 1..Len(code) : code[k] = token})

C7_StringifyWrapsAllButCount ==
  (OnCluster /\ IsSome(sent)) =>
    LET code == Unwrap(sent)
    IN IF call.op = "CountDocuments"
       THEN /\ Occurrences(code, "JSON.stringify(") = 0
            /\ code[1] = "db["
            /\ Occurrences(code, ".countDocuments(") = 1
            /\ ClosingIndex(code, IndexOf(code, ".countDocuments("), 0) = Len(code)
       ELSE /\ code[1] = "JSON.stringify("
            /\ Occurrences(code, "JSON.stringify(") = 1
            /\ code[2] = "db["
            /\ ClosingIndex(code, 1, 0) = Len(code)

(* a count script was sent *)
C7_Witness ==
  /\ OnCluster /\ IsSome(sent)
  /\ call.op = "CountDocuments"
  /\ reply.ok

(***************************************************************************)
(* C8: options an operation does not consult never change or fail its      *)
(* compilation: on both renderers the call compiles exactly as it does     *)
(* with those options removed -- limit, sort and projection for every      *)
(* operation but Find, the distinct field for every operation but          *)
(* Distinct -- whatever their values, invalid JSON included.               *)
(***************************************************************************)
(* the options with everything the operation does not consult removed *)
RelevantOptions(op, options) ==
  IF op = "Find" THEN [options EXCEPT !.distinct_field = None]
  ELSE IF op = "Distinct"
    THEN [DefaultOptions EXCEPT !.distinct_field = options.distinct_field]
  ELSE DefaultOptions

C8_IrrelevantOptionsAreDropped ==
  Executed =>
    /\ Script = to_mongosh_code(call.op, call.collection_name, call.query,
                                RelevantOptions(call.op, CallOptions))
    /\ DriverCall = execute_operation(call.op, call.query,
                                      RelevantOptions(call.op, CallOptions))

(* an aggregation was sent although its limit, sort, projection and        *)
(* distinct field were all supplied, sort and projection not even JSON     *)
C8_Witness ==
  /\ Executed
  /\ call.op = "Aggregate"
  /\ IsSome(call.limit)
  /\ call.sort = Some(O_BAD)
  /\ call.projection = Some(O_BAD)
  /\ IsSome(call.distinct_field)
  /\ IsSome(sent)
  /\ reply.ok

(***************************************************************************)
(* C9: the text a successful query or runSavedQuery call returns is the    *)
(* warning, a blank line and the backend result exactly when limit, sort   *)
(* or projection was supplied and the operation is not Find; otherwise it  *)
(* is the backend result unchanged.                                        *)
(***************************************************************************)
OverridesSupplied ==
  IsSome(call.limit) \/ IsSome(call.sort) \/ IsSome(call.projection)

C9_WarningExactlyForOverridesOnNonFind ==
  (Executed /\ reply.ok) =>
    IF OverridesSupplied /\ call.op # "Find"
    THEN reply.text = <<WARNING, NEWLINE, NEWLINE>> \o ResultText(call.op)
    ELSE reply.text = ResultText(call.op)

(* a saved count was run with a limit and came back with the warning *)
C9_Witness ==
  /\ Executed /\ reply.ok
  /\ call.tool = "run_saved_query"
  /\ call.op = "CountDocuments"
  /\ IsSome(call.limit)
  /\ reply.text[1] = WARNING

(***************************************************************************)
(* C10 (as amended): a distinct field supplied to an operation other than  *)
(* Distinct is accepted and ignored -- both renderers compile the call as  *)
(* they do without it -- and it raises no warning of its own: the reply    *)
(* carries the warning only if limit, sort or projection was supplied to   *)
(* an operation other than Find.                                           *)
(***************************************************************************)
DistinctFieldElsewhere ==
  /\ Executed
  /\ call.tool = "query_mongodb"
  /\ IsSome(call.distinct_field)
  /\ call.op # "Distinct"

WithoutDistinctField == [CallOptions EXCEPT !.distinct_field = None]

Warned == reply.text # <<>> /\ reply.text[1] = WARNING

C10_DistinctFieldElsewhereIgnoredSilently ==
  DistinctFieldElsewhere =>
    /\ Script = to_mongosh_code(call.op, call.collection_name, call.query,
                                WithoutDistinctField)
    /\ DriverCall = execute_operation(call.op, call.query, WithoutDistinctField)
    /\ reply.ok => (Warned <=> (OverridesSupplied /\ call.op # "Find"))
    /\ (reply.ok /\ ~OverridesSupplied) => reply.text = ResultText(call.op)

(* a count that named a distinct field and nothing else came back without  *)
(* any warning                                                             *)
C10_Witness ==
  /\ DistinctFieldElsewhere
  /\ call.op = "CountDocuments"
  /\ ~OverridesSupplied
  /\ reply.ok
  /\ reply.text = ResultText("CountDocuments")

(* C10 as written: the caller who supplied a distinct field to another     *)
(* operation gets a warning with the result                                *)
C10_DistinctFieldElsewhereIsWarned ==
  (DistinctFieldElsewhere /\ reply.ok) => Warned

(***************************************************************************)
(* Claims about the once-initialised client of a direct connection         *)
(***************************************************************************)
Running == {i \in 1..Len(attempts) : attempts[i] = "running"}

(* the calls that began before any run of the closure had finished *)
FirstCallers == {t \in Tasks : tasks[t].pc # "idle" /\ tasks[t].entered = 0}

(* C11 (amended): runs of the client-construction closure never overlap,   *)
(* at most one of them succeeds and it is the last one, every caller that  *)
(* gets a client gets the client of that run, and a failed run is reported *)
(* to the caller that ran it and to no other.                              *)
C11_OneSuccessfulAttemptSharedByAll ==
  /\ Cardinality(Running) <= 1
  /\ Cardinality(Succeeded(attempts)) <= 1
  /\ initialized <=> Succeeded(attempts) # {}
  /\ initialized => Stored(attempts) = Len(attempts)
  /\ \A t \in Tasks :
       tasks[t].pc = "returned" =>
         IF tasks[t].result = "client"
         THEN initialized /\ tasks[t].observed = Stored(attempts)
         ELSE /\ tasks[t].observed = tasks[t].ran
              /\ attempts[tasks[t].ran] \in ClosureOutcomes \ {"ok"}
              /\ \A u \in Tasks \ {t} :
                   tasks[u].pc = "returned" => tasks[u].observed # tasks[t].observed

(* a first run failed, a waiting first caller ran the closure again and     *)
(* succeeded, and another caller was handed that client without running it *)
C11_Witness ==
  /\ Len(attempts) = 2
  /\ attempts[1] \notin {"ok", "running"}
  /\ attempts[2] = "ok"
  /\ \E t, u \in FirstCallers :
       /\ tasks[t].pc = "returned" /\ tasks[t].ran = 2
       /\ tasks[u].pc = "returned" /\ tasks[u].ran = 0 /\ tasks[u].observed = 2

(* C11: among concurrent first callers the client-construction closure     *)
(* runs exactly once and each of them observes the outcome of that one run, *)
(* success or failure; once initialised, no run follows.                   *)
C11_FirstCallersShareOneAttempt ==
  /\ \A t \in FirstCallers :
       /\ tasks[t].ran \in {0, 1}
       /\ tasks[t].pc = "returned" => tasks[t].observed = 1
  /\ initialized => Stored(attempts) = Len(attempts)

(***************************************************************************)
(* Claims about the timeout of a query                                     *)
(***************************************************************************)
TimedOutAfter(n) == <<"timed out after ">> \o Decimal(n) \o <<" seconds">>

(* C12: when the timeout of N seconds expires during a query, the direct   *)
(* backend and the cluster backend both fail with a message of the shape   *)
(* "timed out after N seconds", naming N.                                  *)
C12_TimeoutMessageNamesSecondsOnBothBackends ==
  expired =>
    /\ ~reply.ok
    /\ Contains(reply.text, TimedOutAfter(QueryTimeoutSecs))

(***************************************************************************)
(* Claims about parse_mongosh_output                                       *)
(***************************************************************************)
Classified == IsSome(raw_output)
Trimmed == Trim(Unwrap(raw_output))
Outcome == Unwrap(parse_result)

HasErrorMarker(text) ==
  Contains(text, MONGO_SERVER_ERROR) \/ Contains(text, MONGO_ERROR)

(* the error classes in their order of priority, each with the texts that  *)
(* select it; the last class needs none                                    *)
ErrorClasses ==
  <<[class |-> "Collection not found", markers |-> {NS_NOT_FOUND, DOESNT_EXIST}],
    [class |-> "MongoDB authentication failed", markers |-> {AUTH_FAILED}],
    [class |-> "Query timed out", markers |-> {TIMED_OUT, TIMEOUT}],
    [class |-> "Invalid query syntax", markers |-> {SYNTAX_ERROR, INVALID}],
    [class |-> "MongoDB error", markers |-> {<<>>}]>>

ClassMatches(k, text) ==
  \E marker \in ErrorClasses[k].markers : marker = <<>> \/ Contains(text, marker)

FirstClass(text) ==
  CHOOSE k \in 1..Len(ErrorClasses) :
    /\ ClassMatches(k, text)
    /\ \A j \in 1..(k - 1) : ~ClassMatches(j, text)

(* C13: text with an error marker always fails; the class reported is the  *)
(* first that matches in the order not-found, authentication, timeout,     *)
(* syntax, generic, wherever the markers stand and whether or not the text *)
(* is valid JSON; the message contains the trimmed text.                   *)
C13_MarkedOutputFailsWithFirstClass ==
  (Classified /\ HasErrorMarker(Trimmed)) =>
    /\ ~Outcome.ok
    /\ Len(Outcome.chain) = 1
    /\ Outcome.chain[1][1] = ErrorClasses[FirstClass(Trimmed)].class
    /\ Contains(Outcome.chain[1], Trimmed)

(* a JSON string in which the timeout marker stands before the error       *)
(* marker and the not-found marker after it: reported as not found         *)
C13_Witness ==
  /\ raw_output = Some(<<QUOTE>> \o TIMEOUT \o MONGO_ERROR \o NS_NOT_FOUND \o <<QUOTE>>)
  /\ FromStrValue(Trimmed).ok
  /\ ~Outcome.ok
  /\ Outcome.chain[1][1] = "Collection not found"

(* a number as str::parse::<i64> or str::parse::<f64> reads one from the   *)
(* characters 0-9, point and sign: an optional sign, then digits with at   *)
(* most one point among them and at least one digit                        *)
IsNumberLiteral(text) ==
  LET Body(b) ==
        /\ \A i \in 1..Len(b) : b[i] \in DigitChars \cup {"."}
        /\ Cardinality({i \in 1..Len(b) : b[i] = "."}) <= 1
        /\ \E i \in 1..Len(b) : b[i] \in DigitChars
  IN Body(IF text # <<>> /\ text[1] \in {"+", "-"} THEN Tail(text) ELSE text)

JsonKind(text) ==
  LET Kind(r) == IF r.ok THEN r.v.t ELSE "none"
  IN Kind(FromStrValue(text))

GuidanceError == Err(<<<<"Query returned empty output">>>>)

ParseFailure(text) ==
  Err(<<<<"Failed to parse query result">> \o text \o <<"Parse error">>>>)

(* C14 (amended): text without an error marker succeeds, returning the     *)
(* trimmed text, exactly when the trimmed text is a JSON value of any kind *)
(* or reads as a number; empty text yields the guidance error and every    *)
(* other text a parse failure carrying the raw text and the parse error.   *)
C14_UnmarkedOutputAcceptsAnyJsonOrNumber ==
  (Classified /\ ~HasErrorMarker(Trimmed)) =>
    IF Trimmed = <<>> THEN Outcome = GuidanceError
    ELSE IF JsonKind(Trimmed) # "none" \/ IsNumberLiteral(Trimmed)
      THEN Outcome = Ok(Trimmed)
    ELSE Outcome = ParseFailure(Trimmed)

(* padded "true" is accepted and returned trimmed, and so is "1.", which   *)
(* is a number but not JSON                                                *)
C14_Witness ==
  \/ /\ raw_output = Some(<<" ", "t", "r", "u", "e", NEWLINE>>)
     /\ Outcome = Ok(<<"t", "r", "u", "e">>)
  \/ /\ raw_output = Some(<<"1", ".">>)
     /\ JsonKind(Trimmed) = "none"
     /\ Outcome = Ok(Trimmed)

(* C14: text without an error marker succeeds, returning the trimmed text, *)
(* exactly when the trimmed text is a JSON object, a JSON array or a bare  *)
(* number; empty text yields the guidance error; every other text, a JSON  *)
(* string, true, false and null included, is a parse failure.              *)
C14_UnmarkedOutputAcceptsObjectArrayNumber ==
  (Classified /\ ~HasErrorMarker(Trimmed)) =>
    IF Trimmed = <<>> THEN Outcome = GuidanceError
    ELSE IF JsonKind(Trimmed) \in {"object", "array", "number"}
            \/ IsNumberLiteral(Trimmed)
      THEN Outcome = Ok(Trimmed)
    ELSE Outcome = ParseFailure(Trimmed)

(***************************************************************************)
(* Claims about the template engine                                        *)
(***************************************************************************)
OPEN == <<"{", "{">>
CLOSE == <<"}", "}">>

(* the first position at or after from where "}}" stands, 0 if none *)
FirstClose(text, from) ==
  LET closes == {q \in from..(Len(text) - 1) : MatchesAt(text, q, CLOSE)}
  IN IF closes = {} THEN 0 ELSE CHOOSE q \in closes : \A r \in closes : q <= r

(* where the scan goes from position p: past a closed placeholder, to the  *)
(* end after an unclosed opening, else one character on                    *)
ScanStep(text, p) ==
  LET After(close) == IF close = 0 THEN Len(text) + 1 ELSE close + 2
  IN IF MatchesAt(text, p, OPEN) THEN After(FirstClose(text, p + 2)) ELSE p + 1

(* the positions the left-to-right scan visits *)
RECURSIVE ScanPositions(_, _)
ScanPositions(text, p) ==
  IF p > Len(text) THEN {} ELSE {p} \cup ScanPositions(text, ScanStep(text, p))

(* the names between an opening the scan visits and the first "}}" after it *)
NamesScanned(text) ==
  {SubSeq(text, p + 2, FirstClose(text, p + 2) - 1) :
     p \in {q \in ScanPositions(text, 1) :
              MatchesAt(text, q, OPEN) /\ FirstClose(text, q + 2) # 0}}

(* one pass over the template: every placeholder the scan finds with a     *)
(* mapped name gives way to the mapped value, all other text is copied     *)
RECURSIVE ReplaceEach(_, _, _)
ReplaceEach(text, p, variables) ==
  LET Closed(close) ==
        IF close = 0 THEN SubSeq(text, p, Len(text))
        ELSE IF SubSeq(text, p + 2, close - 1) \in DOMAIN variables
          THEN variables[SubSeq(text, p + 2, close - 1)]
               \o ReplaceEach(text, close + 2, variables)
        ELSE SubSeq(text, p, close + 1) \o ReplaceEach(text, close + 2, variables)
  IN IF p > Len(text) THEN <<>>
     ELSE IF MatchesAt(text, p, OPEN) THEN Closed(FirstClose(text, p + 2))
     ELSE <<text[p]>> \o ReplaceEach(text, p + 1, variables)

(* C15: when the mapping covers every discovered name, the result is the   *)
(* template with each {{name}} replaced by exactly its mapped value and all *)
(* other text unchanged, and it is the same for every order in which the   *)
(* entries are applied, also when a value holds {{other}} text.            *)
C15_SubstitutionIsVerbatimInAnyOrder ==
  (IsSome(substitution) /\ Unwrap(substitution).result.ok) =>
    /\ Unwrap(substitution).result.text =
         ReplaceEach(Unwrap(substitution).query, 1, Unwrap(substitution).variables)
    /\ \A order \in IterationOrders(DOMAIN Unwrap(substitution).variables) :
         substitute_placeholders(Unwrap(substitution).query,
                                 Unwrap(substitution).variables, order).text
           = Unwrap(substitution).result.text

(* C17: find_placeholders scans left to right without nesting: an opening  *)
(* {{ is closed by the first }} after it, the text between is one name,    *)
(* scanning resumes after that }}, an empty name and an unclosed {{ give   *)
(* nothing, and the result is a set that holds each name once.             *)
C17_PlaceholdersAreScannedWithoutNesting ==
  IsSome(finding) =>
    /\ Unwrap(finding).placeholders = NamesScanned(Unwrap(finding).query) \ {<<>>}
    /\ \A name \in Unwrap(finding).placeholders :
         /\ name # <<>>
         /\ ~Contains(name, CLOSE)
         /\ Contains(Unwrap(finding).query, Placeholder(name))

(* the same placeholder twice gives its name once; an opening inside an    *)
(* opening belongs to the name                                             *)
C17_Witness ==
  \/ /\ finding = Some([query |-> Placeholder(A_NAME) \o Placeholder(A_NAME),
                        placeholders |-> {A_NAME}])
  \/ /\ IsSome(finding)
     /\ Unwrap(finding).query = OPEN \o Placeholder(A_NAME)
     /\ Unwrap(finding).placeholders = {OPEN \o A_NAME}

(***************************************************************************)
(* Claims about runSavedQuery and its variables                            *)
(***************************************************************************)
(* a runSavedQuery call that found its saved query *)
RanSavedQuery ==
  /\ call # Idle
  /\ call.tool = "run_saved_query"
  /\ call.connection_name \in ConnectionNames
  /\ IsSome(get_query(store[call.connection_name], call.query_name))

SavedTemplate == Unwrap(get_query(store[call.connection_name], call.query_name)).query

NamesGiven == IF IsSome(call.variables) THEN DOMAIN Unwrap(call.variables) ELSE {}

NamesMissing == NamesScanned(SavedTemplate) \ ({<<>>} \cup NamesGiven)

(* C16: runSavedQuery fails without executing anything whenever a          *)
(* discovered placeholder has no mapping entry, and the failure lists      *)
(* every such name; a call without a mapping behaves as one with an empty  *)
(* mapping and gets past substitution only when the template has no        *)
(* placeholder.                                                            *)
C16_MissingVariablesAreAllListed ==
  RanSavedQuery =>
    IF NamesMissing # {}
    THEN /\ call.stage = "rejected"
         /\ reply.code = "invalid_params"
         /\ reply.missing = NamesMissing
         /\ sent = None
    ELSE /\ call.stage = "executed"
         /\ reply.missing = {}
         /\ NamesGiven = {} => NamesScanned(SavedTemplate) \ {<<>>} = {}

(* a template with two placeholders run with an empty mapping and with no  *)
(* mapping: both names are listed                                          *)
C16_Witness ==
  /\ RanSavedQuery
  /\ call.query_name = "by_a_and_b"
  /\ NamesGiven = {}
  /\ reply.missing = {X_NAME, Y_NAME}
  /\ sent = None

(***************************************************************************)
(* C18: a successful saveQuery is an upsert on the connection's store.  If *)
(* an entry with the name exists, its description, collection, operation   *)
(* and query are overwritten with the call's, its updated-at becomes the   *)
(* current time and its created-at and its position stay; otherwise a new  *)
(* entry is appended with both timestamps the current time.  Every other   *)
(* entry, and every other connection's store, is unchanged.                *)
(***************************************************************************)
SaveQuerySucceeds ==
  call = Idle /\ call'.tool = "save_query" /\ reply'.ok

EntrySaved(created) ==
  [name |-> call'.query_name, description |-> call'.description,
   collection |-> call'.collection_name,
   operation |-> as_str(call'.operation), query |-> call'.query,
   created_at |-> created, updated_at |-> clock']

UpsertFrame(before, after) ==
  IF \E i \in 1..Len(before) : before[i].name = call'.query_name
  THEN /\ Len(after) = Len(before)
       /\ \A i \in 1..Len(before) :
            after[i] = IF before[i].name = call'.query_name
                       THEN EntrySaved(before[i].created_at)
                       ELSE before[i]
  ELSE after = Append(before, EntrySaved(clock'))

C18_SaveQueryIsAnUpsert ==
  [][SaveQuerySucceeds =>
       /\ UpsertFrame(store[call'.connection_name],
                      store'[call'.connection_name])
       /\ \A c \in ConnectionNames \ {call'.connection_name} :
            store'[c] = store[c]]_vars

(* C18 witness: a saveQuery has updated the first of two entries, which    *)
(* kept its place and its earlier created-at                               *)
C18_Witness ==
  /\ call.tool = "save_query"
  /\ reply.ok
  /\ reply.text[4] = "updated"
  /\ Len(store[call.connection_name]) = 2
  /\ store[call.connection_name][1].name = call.query_name
  /\ store[call.connection_name][1].description = call.description
  /\ store[call.connection_name][1].created_at < clock
  /\ store[call.connection_name][1].updated_at = clock
  /\ store[call.connection_name][2].updated_at < clock

(***************************************************************************)
(* C19: after any sequence of saveQuery and deleteSavedQuery calls on a    *)
(* store that started empty, no two entries of a connection's store have   *)
(* the same name and no entry's updated-at is earlier than its created-at. *)
(***************************************************************************)
C19_NamesUniqueAndUpdatedNotBeforeCreated ==
  \A c \in ConnectionNames :
    /\ \A i, j \in 1..Len(store[c]) :
         store[c][i].name = store[c][j].name => i = j
    /\ \A i \in 1..Len(store[c]) :
         store[c][i].updated_at >= store[c][i].created_at

(* C19 witness: a deleteSavedQuery has removed one of two entries and the  *)
(* one left had been saved and later updated                               *)
C19_Witness ==
  /\ call.tool = "delete_saved_query"
  /\ reply.ok
  /\ Len(store[call.connection_name]) = 1
  /\ store[call.connection_name][1].name # call.query_name
  /\ store[call.connection_name][1].created_at
       < store[call.connection_name][1].updated_at

(***************************************************************************)
(* C20: if two configured connections, namespaces and direct connections   *)
(* taken together, share a name, startup fails before any connection is    *)
(* registered; otherwise the registry of the serving server holds exactly  *)
(* one connection, of its configured kind, for each configured name, and   *)
(* no step changes it once the server handles calls.                       *)
(***************************************************************************)
Configured == Unwrap(config).namespaces \o Unwrap(config).connections

SharesAName ==
  \E i, j \in 1..Len(Configured) : i # j /\ Configured[i] = Configured[j]

Serving == startup.pc = "serving"

RegistryHoldsOnePerName ==
  /\ DOMAIN registry = Range(Configured)
  /\ Cardinality(DOMAIN registry) = Len(Configured)
  /\ \A n \in Range(Unwrap(config).namespaces) : registry[n] = "kubernetes"
  /\ \A n \in Range(Unwrap(config).connections) : registry[n] = "direct"

C20_DuplicateNamesAreFatalElseRegistryIsFixed ==
  /\ [](IsSome(config) /\ SharesAName =>
          startup.pc \in {"loaded", "failed"} /\ registry = NoConnections)
  /\ [][IsSome(config) /\ SharesAName /\ startup.pc = "loaded" =>
          startup'.pc = "failed"]_vars
  /\ [](Serving => RegistryHoldsOnePerName)
  /\ [][Serving => Serving' /\ registry' = registry]_vars

(* C20 witness: startup has failed on a direct connection named like a     *)
(* namespace, with nothing registered                                      *)
C20_Witness ==
  /\ IsSome(config)
  /\ startup.pc = "failed"
  /\ Range(Unwrap(config).namespaces) \cap Range(Unwrap(config).connections) # {}
  /\ Cardinality(Range(Unwrap(config).namespaces)) = Len(Unwrap(config).namespaces)
  /\ registry = NoConnections

(***************************************************************************)
(* C21: every per-call error returned to the caller carries the full cause *)
(* chain flattened into one message, the top-level message followed by     *)
(* each underlying cause; here for the errors of reading and writing the   *)
(* saved-query store.                                                      *)
(***************************************************************************)
C21_ErrorsCarryTheFullCauseChain ==
  call # Idle /\ IsSome(call.error) =>
    /\ ~reply.ok
    /\ reply.text = format_error(Unwrap(call.error))

(***************************************************************************)
(* C22: when save_query and delete_saved_query calls interleave their load *)
(* and write steps, a connection's persisted store is the list that the    *)
(* call which wrote it last computed from its own load, whatever the other *)
(* calls wrote in between; a store no call wrote is as it was, so calls on *)
(* another connection's store have no effect on it.                        *)
(***************************************************************************)
WritesTo(c) ==
  {i \in 1..Len(written) : writers[written[i]].connection_name = c}

LastWriter(c) ==
  writers[written[CHOOSE i \in WritesTo(c) : \A j \in WritesTo(c) : j <= i]]

ComputedFromOwnLoad(frame) ==
  IF frame.tool = "save_query"
  THEN upsert_query(frame.loaded, frame.query_name, frame.body.description,
                    frame.body.collection_name, as_str(frame.body.operation),
                    frame.body.query, frame.now)
  ELSE SelectSeq(frame.loaded, LAMBDA q : q.name # frame.query_name)

C22_LastWriterWins ==
  \A c \in ConnectionNames :
    store[c] = IF WritesTo(c) = {} THEN StoredQueries
               ELSE ComputedFromOwnLoad(LastWriter(c))

(* C22 witness: two calls on the same store both reported success, the     *)
(* first wrote a new query q1, and the store written by the second, from a *)
(* load taken before that, does not hold q1                                *)
C22_Witness ==
  /\ Len(written) = 2
  /\ writers[written[1]].connection_name = writers[written[2]].connection_name
  /\ writers[written[1]].tool = "save_query"
  /\ writers[written[1]].query_name = "q1"
  /\ writers[written[1]].code = "success"
  /\ writers[written[2]].code = "success"
  /\ writers[written[2]].query_name = "by_a"
  /\ ~IsSome(get_query(store[writers[written[1]].connection_name], "q1"))
  /\ store["cluster"] = StoredQueries

(***************************************************************************)
(* C23: given a successful pod listing, the pod find_healthy_pod returns   *)
(* has phase Running and container statuses that are all ready, and no pod *)
(* listed before it has both.                                              *)
(***************************************************************************)
Listed == IsSome(pod_list) /\ Unwrap(pod_list).ok
Pods == Unwrap(pod_list).items
Found == Unwrap(healthy_pod)

Qualifies(pod) ==
  /\ IsSome(pod.status)
  /\ Unwrap(pod.status).phase = Some("Running")
  /\ IsSome(Unwrap(pod.status).container_statuses)
  /\ \A i \in 1..Len(Unwrap(Unwrap(pod.status).container_statuses)) :
       Unwrap(Unwrap(pod.status).container_statuses)[i]

C23_ReturnedPodIsFirstRunningAndReady ==
  Listed /\ Found.ok =>
    \E i \in 1..Len(Pods) :
      /\ Pods[i].name = Some(Found.text)
      /\ Qualifies(Pods[i])
      /\ \A j \in 1..(i - 1) : ~Qualifies(Pods[j])

(***************************************************************************)
(* C24: given a successful pod listing, find_healthy_pod fails exactly     *)
(* when no listed pod qualifies, that failure names the namespace and the  *)
(* deployment, and an entry that does not qualify, one without a name      *)
(* included, is skipped.                                                   *)
(***************************************************************************)
C24_FailsOnlyWhenNoPodQualifies ==
  Listed =>
    /\ ~Found.ok <=> \A i \in 1..Len(Pods) : ~Qualifies(Pods[i])
    /\ ~Found.ok =>
         /\ \E k \in 1..Len(Found.chain[1]) : Found.chain[1][k] = NAMESPACE
         /\ \E k \in 1..Len(Found.chain[1]) : Found.chain[1][k] = DEPLOYMENT

(***************************************************************************)
(* C25: a call of exec_command_in_pod with a timeout of T seconds has      *)
(* returned, with the output or with the timed-out error, once it has      *)
(* waited T seconds, whatever the remote process does: no call is still    *)
(* waiting after more than T seconds.                                      *)
(***************************************************************************)
C25_ExecReturnsWithinItsTimeout ==
  exec.pc \in {"attaching", "reading"} => exec.elapsed <= exec.timeout_secs

(***************************************************************************)
(* C26, as claimed: when get_output has both outputs, the result is the    *)
(* diagnostic output alone if the primary output is empty and the          *)
(* diagnostic one is not; else the primary output followed by the          *)
(* diagnostic one if that is non-empty and contains "Error"; else the      *)
(* primary output alone.                                                   *)
(***************************************************************************)
Reconciled ==
  /\ exec.pc = "returned"
  /\ IsSome(exec.stdout)
  /\ IsSome(exec.stderr)
  /\ Unwrap(exec.result).ok

Primary == Unwrap(exec.stdout).bytes
Diagnostic == Unwrap(exec.stderr).bytes
Output == Unwrap(exec.result).text

PrimaryThenDiagnostic == Primary \o <<NEWLINE>> \o Diagnostic

C26_OutputChosenByEmptiness ==
  Reconciled =>
    Output = IF Primary = <<>> /\ Diagnostic # <<>> THEN Diagnostic
             ELSE IF Diagnostic # <<>> /\ Contains(Diagnostic, ERROR)
               THEN PrimaryThenDiagnostic
             ELSE Primary

(***************************************************************************)
(* C26, amended: an output counts as empty when nothing but whitespace is  *)
(* in it.  If the primary output is blank and the diagnostic one is not,   *)
(* the result is the diagnostic output alone; else, if the diagnostic      *)
(* output is not blank and contains "Error", the result is the primary     *)
(* output, a newline and the diagnostic output; else the primary output    *)
(* alone.                                                                  *)
(***************************************************************************)
Blank(text) == \A i \in 1..Len(text) : text[i] \in Whitespace

C26_OutputChosenByBlankness ==
  Reconciled =>
    Output = IF Blank(Primary) /\ ~Blank(Diagnostic) THEN Diagnostic
             ELSE IF ~Blank(Diagnostic) /\ Contains(Diagnostic, ERROR)
               THEN PrimaryThenDiagnostic
             ELSE Primary

(* C26 witness: the primary output was whitespace only and the diagnostic  *)
(* output, which is not blank, came back alone                             *)
C26_Witness ==
  /\ Reconciled
  /\ Primary # <<>>
  /\ Blank(Primary)
  /\ ~Blank(Diagnostic)
  /\ Output = Diagnostic

(***************************************************************************)
(* C28, as claimed: get_pod_env_vars returns one position per requested    *)
(* name; position i holds the value of the first entry named names[i], in  *)
(* the order of the containers and of each container's entries, and        *)
(* absence when no entry has the name; a later entry of the same name      *)
(* never supplies the value.                                               *)
(***************************************************************************)
EnvGot == IsSome(env_request) /\ Unwrap(env_request).ok
EnvNames == Unwrap(env_request).names
EnvValues == Unwrap(env_result).values

RECURSIVE Flatten(_)
Flatten(containers) ==
  IF containers = <<>> THEN <<>>
  ELSE (IF IsSome(Head(containers)) THEN Unwrap(Head(containers)) ELSE <<>>)
       \o Flatten(Tail(containers))

Entries ==
  IF IsSome(Unwrap(env_request).spec)
  THEN Flatten(Unwrap(Unwrap(env_request).spec))
  ELSE <<>>

FirstOf(matching) ==
  IF matching = {} THEN None
  ELSE Entries[CHOOSE k \in matching : \A j \in matching : k <= j].value

C28_FirstEntryOfTheNameWins ==
  EnvGot =>
    /\ Unwrap(env_result).ok
    /\ Len(EnvValues) = Len(EnvNames)
    /\ \A i \in 1..Len(EnvNames) :
         EnvValues[i] =
           FirstOf({k \in 1..Len(Entries) : Entries[k].name = EnvNames[i]})

(***************************************************************************)
(* C28, amended: position i holds the value of the first entry named       *)
(* names[i] that has a literal value, in the order of the containers and   *)
(* of each container's entries, and absence when no entry of that name has *)
(* one; an entry after that one never replaces the value, and a missing    *)
(* name is never an error.                                                 *)
(***************************************************************************)
C28_FirstValueOfTheNameWins ==
  EnvGot =>
    /\ Unwrap(env_result).ok
    /\ Len(EnvValues) = Len(EnvNames)
    /\ \A i \in 1..Len(EnvNames) :
         EnvValues[i] =
           FirstOf({k \in 1..Len(Entries) :
                      /\ Entries[k].name = EnvNames[i]
                      /\ IsSome(Entries[k].value)})

(* C28 witness: the first entry of a requested name has no literal value,  *)
(* a later one of another container has, and that later value is returned; *)
(* the other requested name has two values and the first is returned       *)
C28_Witness ==
  /\ EnvGot
  /\ EnvNames = <<USERNAME_FILE, PASSWORD_FILE>>
  /\ Len(Entries) >= 4
  /\ Entries[1] = EnvVar(USERNAME_FILE, None)
  /\ EnvValues[1] = Some("/run/u2")
  /\ EnvValues[2] = Some("/run/p1")
  /\ \E k \in 1..Len(Entries) : Entries[k] = EnvVar(PASSWORD_FILE, Some("/run/p2"))

(***************************************************************************)
(* C27: whenever the remote mongosh of a cluster-backed query has written  *)
(* diagnostic text that contains "Error", execute_query returns an error,  *)
(* never a successful result.                                              *)
(***************************************************************************)
ClusterReturned == cluster.pc = "returned"
ClusterResult == Unwrap(cluster.result)

C27_DiagnosticErrorFailsTheQuery ==
  /\ ClusterReturned
  /\ IsSome(cluster.mongosh)
  /\ Unwrap(cluster.mongosh).attach = "ok"
  /\ Contains(Unwrap(cluster.mongosh).stderr.bytes, ERROR)
  => ~ClusterResult.ok

(***************************************************************************)
(* C29: credential resolution fails for the call if either required        *)
(* environment name is absent from the pod or either credential file       *)
(* cannot be read, and then no database command is executed; when it       *)
(* succeeds, the username and the password are the two files' contents     *)
(* with surrounding whitespace trimmed.                                    *)
(***************************************************************************)
KindsOfTrips == [k \in 1..Len(trips) |-> trips[k].kind]

MongoshExecuted == \E k \in 1..Len(trips) : trips[k].kind = "exec mongosh"

FilesRead == Unwrap(cluster.files)

AFileCannotBeRead ==
  /\ IsSome(cluster.files)
  /\ \/ FilesRead.username.kind # "content"
     \/ FilesRead.password.kind # "content"

ANameIsAbsent ==
  /\ cluster.pc = "returned"
  /\ KindsOfTrips = <<"pods.list", "pods.get">>
  /\ ClusterResult.chain[1][1] = "MongoDB credentials not found: "

C29_UnreadableCredentialsFailTheCall ==
  /\ AFileCannotBeRead \/ ANameIsAbsent =>
       /\ cluster.credentials = None
       /\ ~MongoshExecuted
       /\ cluster.pc = "returned" /\ ~ClusterResult.ok
  /\ IsSome(cluster.credentials) =>
       /\ Unwrap(cluster.credentials).username = Trim(FilesRead.username.bytes)
       /\ Unwrap(cluster.credentials).password = Trim(FilesRead.password.bytes)

(***************************************************************************)
(* C30: a cluster-backed execute_query makes at most one pod discovery,    *)
(* then at most one credential resolution (the pod's env, then the two     *)
(* file reads), then at most one command execution, in that order; a step  *)
(* that fails ends the call with that failure and nothing after it is      *)
(* run; the command carries the credentials resolved in this call, and a   *)
(* call starts with no credentials at hand.                                *)
(***************************************************************************)
RoundTrips == <<"pods.list", "pods.get", "exec cat", "exec cat", "exec mongosh">>

StepsDone(pc) ==
  CASE pc = "idle" -> 0..5
    [] pc = "discovery" -> {0}
    [] pc = "environment" -> {1}
    [] pc = "files" -> {2}
    [] pc = "execution" -> {4}
    [] pc = "returned" -> 1..5

FailedAt ==
  CASE ClusterResult.chain[1][1] \in {"Failed to list pods",
                                      "No healthy pods found for deployment '"}
         -> {1}
    [] ClusterResult.chain[1][1] \in {"Failed to get pod",
                                      "MongoDB credentials not found: "} -> {2}
    [] ClusterResult.chain[1][1] \in {"Failed to read username file",
                                      "Failed to read password file"} -> {4}
    [] OTHER -> {4, 5}

C30_OneDiscoveryOneResolutionOneExecutionInOrder ==
  /\ Len(trips) \in StepsDone(cluster.pc)
  /\ KindsOfTrips = SubSeq(RoundTrips, 1, Len(trips))
  /\ cluster.pc = "returned" =>
       IF ClusterResult.ok THEN Len(trips) = 5 ELSE Len(trips) \in FailedAt
  /\ cluster.pc \in {"discovery", "environment", "files"} =>
       cluster.credentials = None
  /\ cluster.pc # "idle" /\ MongoshExecuted =>
       /\ trips[5].arg = Unwrap(cluster.credentials)
       /\ FilesRead.username.kind = "content" =>
            trips[5].arg.username = Trim(FilesRead.username.bytes)
       /\ FilesRead.password.kind = "content" =>
            trips[5].arg.password = Trim(FilesRead.password.bytes)

(* C30 witness: the second call has run its three steps in order and its   *)
(* command carried the username this call read, not the one the call       *)
(* before had resolved                                                     *)
C30_Witness ==
  /\ cluster.pc = "returned"
  /\ cluster.calls = 2
  /\ ClusterResult.ok
  /\ IsSome(cluster.previous)
  /\ KindsOfTrips = RoundTrips
  /\ trips[5].arg.username = <<"u", "2">>
  /\ Unwrap(cluster.previous).username = <<"u", "1">>

==============================================================================
